---- MODULE Spec2Model ----
(***************************************************************************)
(* A model of the hg graph runtime.                                        *)
(*                                                                         *)
(* PythonGraphEngine (src/hg/_impl/_runtime/_graph_engine.py) is modelled  *)
(* as a state machine: one action per step of run(), start(), stop(),      *)
(* evaluate_graph() and advance_engine_time().  Engine times are integers  *)
(* MIN_DT..MAX_DT; a timedelta is an integer, the smallest being 1.        *)
(*                                                                         *)
(* Node, Graph and start_stop_context are not part of the sources at hand; *)
(* what the engine needs of them is modelled from the specification:       *)
(*   - a node's start / eval / stop may return or raise;                   *)
(*   - a node's eval may schedule itself (schedule(delta)), may tick its   *)
(*     output (which schedules its consumers at the current engine time)   *)
(*     and may call request_stop();                                        *)
(*   - start_stop_context(engine) calls engine.start() and guarantees      *)
(*     engine.stop() on every exit path.                                   *)
(***************************************************************************)
EXTENDS Integers, Sequences, FiniteSets, TLC

\* ---------------------------------------------------------------- bounds
NumNodes == 3      \* len(graph.nodes)
MAX_DT   == 3      \* the largest engine time of the model
MaxDelta == 2      \* the largest delta a node passes to schedule()
MaxLag   == 1      \* the largest engine lag (wall clock now - anchor) observed

\* ------------------------------------------------------------- constants
MIN_DT == 0
push_source_nodes_end == 1

Nodes    == 0 .. (NumNodes - 1)
PushNodes == {i \in Nodes : i < push_source_nodes_end}
NonPushNodes == Nodes \ PushNodes
Times    == MIN_DT .. MAX_DT
None     == [none |-> TRUE]   \* the execution context when there is none
NoTime   == MIN_DT - 1        \* _start_time / _end_time before the first run()

\* The consumers of node i's output: edges go from a lower to a higher index.
Consumers(i) == {j \in NonPushNodes : j > i}
Producers(j) == {i \in Nodes : j \in Consumers(i)}

VARIABLES
    pc,                 \* the position of run() and of the calls it makes
    run_mode,           \* PythonGraphEngine._run_mode
    is_started,         \* PythonGraphEngine.is_started
    _stop_requested,    \* PythonGraphEngine._stop_requested
    _start_time,        \* PythonGraphEngine._start_time
    _end_time,          \* PythonGraphEngine._end_time
    _scheduler,         \* PythonGraphEngine._scheduler: node index -> time
    _execution_context, \* None or a BackTestExecutionContext
    idx,                \* the index of the running for loop over graph.nodes
    error,              \* the exception in flight / raised by run()
    life_log,           \* observer and node start/stop events of this run()
    tick_log,           \* observer and node eval events of this evaluate_graph()
    ticked,             \* nodes whose output was modified in this tick
    api_call,           \* the start()/stop() call made by the last step, if any
    \* two runs of one engine, compared
    run_no,             \* 0, or the number of the run() under way
    behaviour,          \* what each node's eval does, the same in both runs
    trace,              \* the <<engine time, event>> pairs of the run under way
    first_trace,        \* the trace and
    first_life_log,     \*   the life_log of the first run
    \* PythonGraphBuilder
    builder_pc,         \* the position of make_instance()/release_instance()
    edges,              \* PythonGraphBuilder.edges
    nodes,              \* make_instance: the list `nodes`
    edge_no,            \* the index of the running for loop
    bound,              \* the <<input, output>> pairs with input.output = output
    build_log,          \* the calls made on node builders, nodes and the graph
    graph_nodes,        \* GraphImpl.nodes of the graph returned
    \* create_graph_builder and toposort
    wiring_pc,          \* the position of create_graph_builder()/toposort()
    node_type,          \* wiring node -> resolved_signature.node_type
    inputs,             \* wiring node -> the nodes of its inputs and rank markers
    sink_nodes,         \* the argument sink_nodes
    supports_push_nodes, \* the argument supports_push_nodes
    mapping,            \* toposort: wiring node -> the nodes it feeds
    nodes_to_process,   \* toposort: the deque
    source_nodes,       \* toposort: the set of source nodes found
    processed_nodes,    \* toposort: wiring node -> rank, NoRank when absent
    max_rank,           \* toposort: max_rank
    ranked_nodes,       \* the list toposort returns
    node_map,           \* create_graph_builder: wiring node -> index, NoRank when absent
    node_builders,      \* create_graph_builder: the wiring node of each node builder
    edge_set,           \* create_graph_builder: the set `edges`
    built_edges,        \* the edges of the GraphBuilder returned
    \* PythonTimeSeriesSetOutput
    tss_pc,             \* "none", or "tick" while a set output is in use
    _value,             \* PythonTimeSeriesSetOutput._value
    _added,             \* PythonTimeSeriesSetOutput._added, {} when None
    _removed,           \* PythonTimeSeriesSetOutput._removed, {} when None
    tss_delta_is_none,  \* _added and _removed are None
    tss_valid,          \* the output was marked modified at some time
    tss_reset_pending,  \* _reset is in the after-evaluation notifications
    tss_result,         \* the result last applied in this tick
    tss_before,         \* _value before that result was applied
    tss_error,          \* the error the last call raised, "none" when it returned
    tss_tick_start,     \* _value when the tick began
    tss_query,          \* the last query on the bound set input and its results
    \* PythonTimeSeriesBundleOutput / PythonTimeSeriesBundleInput
    tsb_pc,             \* "none", or "tick" while a bundle is in use
    tsb_now,            \* the engine time of the tick
    field_lmt,          \* field -> last_modified_time of the child output
    bundle_lmt,         \* last_modified_time of the bundle output
    has_output,         \* the bundle input's own _output is set (it has a peer)
    child_output,       \* field -> the output field the child input is bound to
    tsb_active,         \* the bundle input's own _active
    child_active,       \* field -> _active of the child input
    subscribed,         \* the bundle input is subscribed to its peer output
    tsb_ticked,         \* the fields applied in this tick
    tsb_call,           \* the method of the bundle input called last
    \* the switch node
    switch_pc,          \* "none", or the position of the switch node
    _reload_on_ticked,  \* SwitchWiringNodeClass._reload_on_ticked
    builder_reload,     \* reload_on_ticked of the PythonSwitchNodeBuilder
    key_value,          \* the value of the key input at its last tick
    prior_key,          \* the key of the inner graph active when the key ticked
    active_key,         \* the key of the active inner graph
    active_graphs,      \* the inner graph instances started and not stopped
    next_graph,         \* the number of inner graphs instantiated
    switch_log,         \* the calls made for the last tick of the key
    \* references: valid over a reference
    ref_pc,             \* "none", or "tick" while the graph of the test runs
    ref_now,            \* the number of ticks evaluated
    ref_value,          \* time series a, b -> its value, NoValue before it ticks
    ref_i,              \* the value of the input i of make_ref
    ref_target,         \* the target the input of valid resolves to
    ref_out,            \* the output of valid in this tick
    ref_cause,          \* what made valid tick: "rebound", "became_valid"
    ref_inputs,         \* "test_valid_1" while the inputs are those of the test
    \* the post-evaluation queue of the engine
    _after_evaluation_notification, \* PythonGraphEngine._after_evaluation_notification
    tick_no,            \* the number of evaluate_graph() calls so far
    added_callbacks,    \* the callbacks added so far, each <<tick, node>>
    invoked,            \* the <<callback, tick>> pairs of the invocations so far
    aborted_ticks,      \* the ticks that an eval left by raising
    notify_log,         \* the evals, callbacks and observers of this tick, in order
    \* --- build_resolution_dict of a bundle schema ---
    schema_pc,          \* "none", "call", "zip", "returned" or "raised"
    meta_data_schema,   \* the field names of the declared schema, in declaration order
    wired_schema,       \* the field names of the wired schema, in declaration order
    schema_i,           \* the position of the zip of line 51
    schema_resolved,    \* the <<declared field, wired field>> pairs resolved so far
    schema_error,       \* "none" or "ParseError"
    \* --- the unroll node ---
    unroll_pc,          \* "none" or "run"
    unroll_time,        \* the engine time of the last evaluation of the node
    ts_left,            \* the number of ticks the input can still make
    buffer,             \* _state.buffer
    unroll_scheduled,   \* the time in the scheduler slot of the node, 0 when empty
    unroll_arrived,     \* the elements of the input tuples so far, in arrival order
    unroll_out          \* the values the node returned so far

\* the state of the engine
engine_vars == <<pc, run_mode, is_started, _stop_requested, _start_time, _end_time,
                 _scheduler, _execution_context, idx, error, life_log, tick_log,
                 ticked>>
restart_vars == <<run_no, behaviour, trace, first_trace, first_life_log>>

builder_vars == <<builder_pc, edges, nodes, edge_no, bound, build_log, graph_nodes>>
wiring_vars == <<wiring_pc, node_type, inputs, sink_nodes, supports_push_nodes,
                 mapping, nodes_to_process, source_nodes, processed_nodes, max_rank,
                 ranked_nodes, node_map, node_builders, edge_set, built_edges>>
tss_vars == <<tss_pc, _value, _added, _removed, tss_delta_is_none, tss_valid,
              tss_reset_pending, tss_result, tss_before, tss_error, tss_tick_start,
              tss_query>>
tsb_vars == <<tsb_pc, tsb_now, field_lmt, bundle_lmt, has_output, child_output,
              tsb_active, child_active, subscribed, tsb_ticked, tsb_call>>
switch_vars == <<switch_pc, _reload_on_ticked, builder_reload, key_value, prior_key, active_key,
                 active_graphs, next_graph, switch_log>>
ref_vars == <<ref_pc, ref_now, ref_value, ref_i, ref_target, ref_out, ref_cause, ref_inputs>>
\* the time-series types and the nodes over them
types_vars == <<tss_vars, tsb_vars, switch_vars, ref_vars>>
notify_vars == <<_after_evaluation_notification, tick_no, added_callbacks, invoked,
                 aborted_ticks, notify_log>>
\* the state the later sections add
schema_vars == <<schema_pc, meta_data_schema, wired_schema, schema_i, schema_resolved,
                 schema_error>>
unroll_vars == <<unroll_pc, unroll_time, ts_left, buffer, unroll_scheduled,
                 unroll_arrived, unroll_out>>
more_vars == <<notify_vars, schema_vars, unroll_vars>>
\* the state of the library outside the engine
lib_vars == <<builder_vars, wiring_vars, types_vars, more_vars>>

vars == <<engine_vars, api_call, restart_vars, lib_vars>>

\* no comparison of two runs is under way
RestartParked ==
    /\ run_no = 0
    /\ behaviour = <<>>
    /\ trace = <<>>
    /\ first_trace = <<>>
    /\ first_life_log = <<>>

Ev(name, node) == [ev |-> name, node |-> node]
GraphEv(name)  == Ev(name, -1)

\* BackTestExecutionContext.__init__
BackTestExecutionContext(current_time) ==
    [_current_time |-> current_time, _proposed_next_engine_time |-> MAX_DT]

current_engine_time == _execution_context._current_time
proposed_next_engine_time == _execution_context._proposed_next_engine_time

\* a back-test context that reports pending pushes
push_has_pending_values_True == TRUE

\* BackTestExecutionContext.push_has_pending_values
push_has_pending_values == FALSE

\* PythonGraphEngine.initialise
initialise == [i \in Nodes |-> MIN_DT]

\* no graph builder is in use
BuilderParked ==
    /\ builder_pc = "none"
    /\ edges = <<>>
    /\ nodes = <<>>
    /\ edge_no = 0
    /\ bound = {}
    /\ build_log = <<>>
    /\ graph_nodes = <<>>

\* no graph is being wired
WiringParked ==
    /\ wiring_pc = "none"
    /\ node_type = <<>>
    /\ inputs = <<>>
    /\ sink_nodes = <<>>
    /\ supports_push_nodes = TRUE
    /\ mapping = <<>>
    /\ nodes_to_process = <<>>
    /\ source_nodes = {}
    /\ processed_nodes = <<>>
    /\ max_rank = 0
    /\ ranked_nodes = <<>>
    /\ node_map = <<>>
    /\ node_builders = <<>>
    /\ edge_set = {}
    /\ built_edges = <<>>

\* no set output is in use
TssParked ==
    /\ tss_pc = "none"
    /\ _value = {}
    /\ _added = {}
    /\ _removed = {}
    /\ tss_delta_is_none = TRUE
    /\ tss_valid = FALSE
    /\ tss_reset_pending = FALSE
    /\ tss_result = <<>>
    /\ tss_before = {}
    /\ tss_error = "none"
    /\ tss_tick_start = {}
    /\ tss_query = <<>>

\* no bundle is in use
TsbParked ==
    /\ tsb_pc = "none"
    /\ tsb_now = 0
    /\ field_lmt = <<>>
    /\ bundle_lmt = 0
    /\ has_output = FALSE
    /\ child_output = <<>>
    /\ tsb_active = FALSE
    /\ child_active = <<>>
    /\ subscribed = FALSE
    /\ tsb_ticked = {}
    /\ tsb_call = "none"

\* no switch node is in use
SwitchParked ==
    /\ switch_pc = "none"
    /\ _reload_on_ticked = FALSE
    /\ builder_reload = FALSE
    /\ key_value = 0
    /\ prior_key = 0
    /\ active_key = 0
    /\ active_graphs = {}
    /\ next_graph = 0
    /\ switch_log = <<>>

\* no reference is in use
RefParked ==
    /\ ref_pc = "none"
    /\ ref_now = 0
    /\ ref_value = <<>>
    /\ ref_i = 0
    /\ ref_target = "unset"
    /\ ref_out = "None"
    /\ ref_cause = {}
    /\ ref_inputs = "none"

TypesParked == TssParked /\ TsbParked /\ SwitchParked /\ RefParked

\* the post-evaluation queue is not under observation
NotifyParked ==
    /\ _after_evaluation_notification = <<>>
    /\ tick_no = 0
    /\ added_callbacks = {}
    /\ invoked = <<>>
    /\ aborted_ticks = {}
    /\ notify_log = <<>>

SchemaParked ==
    /\ schema_pc = "none"
    /\ meta_data_schema = <<>>
    /\ wired_schema = <<>>
    /\ schema_i = 0
    /\ schema_resolved = <<>>
    /\ schema_error = "none"

UnrollParked ==
    /\ unroll_pc = "none"
    /\ unroll_time = 0
    /\ ts_left = 0
    /\ buffer = <<>>
    /\ unroll_scheduled = 0
    /\ unroll_arrived = <<>>
    /\ unroll_out = <<>>

MoreParked == NotifyParked /\ SchemaParked /\ UnrollParked

LibParked == BuilderParked /\ WiringParked /\ TypesParked /\ MoreParked

Init ==
    /\ pc = "idle"
    /\ run_mode \in {"BACK_TEST", "REAL_TIME"}
    /\ is_started = FALSE
    /\ _stop_requested = FALSE
    /\ _start_time = NoTime
    /\ _end_time = NoTime
    /\ _scheduler = initialise
    /\ _execution_context = None
    /\ idx = 0
    /\ error = "none"
    /\ life_log = <<>>
    /\ tick_log = <<>>
    /\ ticked = {}
    /\ api_call = "none"
    /\ RestartParked
    /\ LibParked

\* ------------------------------------------------------------------ run()
\* the range check with its operands swapped
InvalidTimeRange_Swapped(start_time, end_time) == start_time < end_time

\* run(): the range check `end_time < start_time`
InvalidTimeRange(start_time, end_time) == end_time < start_time

\* run(start_time, end_time) up to the entry of start_stop_context
Run(start_time, end_time) ==
    /\ pc \in {"idle", "done"}
    /\ _start_time' = start_time
    /\ _end_time' = end_time
    /\ life_log' = <<>>
    /\ tick_log' = <<>>
    /\ ticked' = {}
    /\ idx' = 0
    /\ IF InvalidTimeRange(start_time, end_time)
         THEN /\ error' = "ValueError"
              /\ pc' = "done"
         ELSE /\ error' = "none"
              /\ pc' = "start"
    /\ UNCHANGED <<run_mode, is_started, _stop_requested, _scheduler,
                   _execution_context>>

\* start_stop_context.__exit__: stop() runs on every exit path
start_stop_context_exit == "stop"

\* ---------------------------------------------------------------- start()
\* a start() that does not look at is_started
ShouldStart_Always == TRUE

\* start(): `if not self.is_started`
ShouldStart == ~is_started

\* stop(): `if self.is_started`
ShouldStop == is_started

\* start() up to notify_before_start
Start ==
    /\ pc = "start"
    /\ IF ShouldStart
         THEN /\ is_started' = TRUE
              /\ _stop_requested' = FALSE
              /\ IF run_mode = "REAL_TIME"
                   THEN /\ error' = "NotImplementedError"
                        /\ pc' = start_stop_context_exit
                        /\ UNCHANGED <<_execution_context, life_log>>
                   ELSE /\ _execution_context' = BackTestExecutionContext(_start_time)
                        /\ life_log' = Append(life_log, GraphEv("on_before_start"))
                        /\ pc' = "start_node"
                        /\ UNCHANGED error
         ELSE /\ pc' = "loop"
              /\ UNCHANGED <<is_started, _stop_requested, _execution_context,
                             life_log, error>>
    /\ idx' = 0
    /\ UNCHANGED <<run_mode, _start_time, _end_time, _scheduler, tick_log, ticked>>

\* start(): one pass of `for node in self.graph.nodes`; node.start() returns or raises
StartNode(raises) ==
    /\ pc = "start_node"
    /\ idx < NumNodes
    /\ IF raises
         THEN /\ life_log' = life_log \o <<Ev("on_before_start_node", idx),
                                           Ev("start", idx)>>
              /\ error' = "NodeError"
              /\ pc' = start_stop_context_exit
              /\ idx' = idx
         ELSE /\ life_log' = life_log \o <<Ev("on_before_start_node", idx),
                                           Ev("start", idx),
                                           Ev("on_after_start_node", idx)>>
              /\ idx' = idx + 1
              /\ UNCHANGED <<error, pc>>
    /\ UNCHANGED <<run_mode, is_started, _stop_requested, _start_time, _end_time,
                   _scheduler, _execution_context, tick_log, ticked>>

\* start(): notify_after_start, then run() enters its loop
StartEnd ==
    /\ pc = "start_node"
    /\ idx = NumNodes
    /\ life_log' = Append(life_log, GraphEv("on_after_start"))
    /\ pc' = "loop"
    /\ UNCHANGED <<run_mode, is_started, _stop_requested, _start_time, _end_time,
                   _scheduler, _execution_context, idx, error, tick_log, ticked>>

\* ------------------------------------------------------------- run(): loop
\* run(): `while self._execution_context.current_engine_time <= end_time`
LoopCondition == current_engine_time <= _end_time

LoopTest ==
    /\ pc = "loop"
    /\ pc' = IF LoopCondition THEN "evaluate" ELSE start_stop_context_exit
    /\ UNCHANGED <<run_mode, is_started, _stop_requested, _start_time, _end_time,
                   _scheduler, _execution_context, idx, error, life_log, tick_log,
                   ticked>>

\* ------------------------------------------------------- evaluate_graph()
\* evaluate_graph(): the evals of the push sources, with no notification
PushEvals == [k \in 1 .. push_source_nodes_end |-> Ev("eval", k - 1)]

\* evaluate_graph() up to the loop over the non-push nodes
EvaluateGraph ==
    /\ pc = "evaluate"
    /\ tick_log' = <<GraphEv("on_before_evaluation")>>
                     \o (IF push_has_pending_values THEN PushEvals ELSE <<>>)
    /\ ticked' = {}
    /\ idx' = push_source_nodes_end
    /\ pc' = "eval_node"
    /\ UNCHANGED <<run_mode, is_started, _stop_requested, _start_time, _end_time,
                   _scheduler, _execution_context, error, life_log>>

\* the schedule test taken as "due", not as "due now"
IsScheduledNow_Due(scheduled_time, now) == scheduled_time <= now

\* evaluate_graph(): `if scheduled_time == now`; the scheduled_time that line 144
\* takes with the node is the node's scheduler slot
IsScheduledNow(scheduled_time, now) == scheduled_time = now

\* Node.schedule(delta) and the notification of the consumers of a ticked output
Scheduled(i, now, delta, tick) ==
    [j \in Nodes |->
        IF j = i /\ delta > 0 THEN now + delta
        ELSE IF tick /\ j \in Consumers(i) THEN now
        ELSE _scheduler[j]]

\* the node notifications both sent before the eval
NodeEvalEvents_NotifyFirst(node, raises) ==
    IF raises
      THEN <<Ev("on_before_node_evaluation", node), Ev("eval", node)>>
      ELSE <<Ev("on_before_node_evaluation", node),
             Ev("on_after_node_evaluation", node), Ev("eval", node)>>

\* evaluate_graph(): notify_before_node_evaluation, node.eval(),
\* notify_after_node_evaluation; an eval that raises leaves the function
NodeEvalEvents(node, raises) ==
    IF raises
      THEN <<Ev("on_before_node_evaluation", node), Ev("eval", node)>>
      ELSE <<Ev("on_before_node_evaluation", node), Ev("eval", node),
             Ev("on_after_node_evaluation", node)>>

\* evaluate_graph(): one pass of the loop over the non-push nodes.  The eval of a
\* scheduled node returns or raises; when it returns it may have scheduled the
\* node delta later (delta > 0), ticked its output, and requested a stop.
EvalNode(raises, delta, tick, stop) ==
    /\ pc = "eval_node"
    /\ idx < NumNodes
    /\ LET now == current_engine_time
           scheduled_time == _scheduler[idx]
       IN IF IsScheduledNow(scheduled_time, now)
            THEN IF raises
                   THEN /\ delta = 0 /\ ~tick /\ ~stop
                        /\ tick_log' = tick_log \o NodeEvalEvents(idx, TRUE)
                        /\ error' = "NodeError"
                        /\ pc' = start_stop_context_exit
                        /\ UNCHANGED <<idx, _scheduler, _stop_requested, ticked>>
                   ELSE /\ now + delta <= MAX_DT
                        /\ tick_log' = tick_log \o NodeEvalEvents(idx, FALSE)
                        /\ _scheduler' = Scheduled(idx, now, delta, tick)
                        /\ _stop_requested' = (_stop_requested \/ stop)
                        /\ ticked' = IF tick THEN ticked \cup {idx} ELSE ticked
                        /\ idx' = idx + 1
                        /\ UNCHANGED <<error, pc>>
            ELSE /\ ~raises /\ delta = 0 /\ ~tick /\ ~stop
                 /\ idx' = idx + 1
                 /\ UNCHANGED <<tick_log, _scheduler, _stop_requested, ticked,
                                error, pc>>
    /\ UNCHANGED <<run_mode, is_started, _start_time, _end_time, _execution_context,
                   life_log>>

\* evaluate_graph(): notify_after_evaluation
EvaluateGraphEnd ==
    /\ pc = "eval_node"
    /\ idx = NumNodes
    /\ tick_log' = Append(tick_log, GraphEv("on_after_evaluation"))
    /\ pc' = "advance"
    /\ UNCHANGED <<run_mode, is_started, _stop_requested, _start_time, _end_time,
                   _scheduler, _execution_context, idx, error, life_log, ticked>>

\* -------------------------------------------------- advance_engine_time()
\* BackTestExecutionContext.wall_clock_time, engine_lag being `lag`
wall_clock_time(lag) == current_engine_time + lag

\* a stop request snapping the clock to the start time
NextEngineTime_SnapToStart(lag) ==
    IF _stop_requested THEN _start_time
    ELSE IF wall_clock_time(lag) >= proposed_next_engine_time
           THEN proposed_next_engine_time
    ELSE IF push_has_pending_values THEN wall_clock_time(lag)
    ELSE proposed_next_engine_time

\* the engine time advance_engine_time() sets
NextEngineTime(lag) ==
    IF _stop_requested THEN _end_time
    ELSE IF wall_clock_time(lag) >= proposed_next_engine_time
           THEN proposed_next_engine_time
    ELSE IF push_has_pending_values THEN wall_clock_time(lag)
    ELSE proposed_next_engine_time   \* wait_until_proposed_engine_time

advance_engine_time(lag) ==
    /\ pc = "advance"
    /\ _execution_context' =
          [_execution_context EXCEPT !._current_time = NextEngineTime(lag)]
    /\ pc' = "loop"
    /\ UNCHANGED <<run_mode, is_started, _stop_requested, _start_time, _end_time,
                   _scheduler, idx, error, life_log, tick_log, ticked>>

\* ----------------------------------------------------------------- stop()
\* stop() up to notify_before_stop
Stop ==
    /\ pc = "stop"
    /\ IF ShouldStop
         THEN /\ is_started' = FALSE
              /\ life_log' = Append(life_log, GraphEv("on_before_stop"))
              /\ pc' = "stop_node"
         ELSE /\ pc' = "done"
              /\ UNCHANGED <<is_started, life_log>>
    /\ idx' = 0
    /\ UNCHANGED <<run_mode, _stop_requested, _start_time, _end_time, _scheduler,
                   _execution_context, error, tick_log, ticked>>

\* stop(): the notification that follows node.stop()
AfterStopNodeEvent(node) == Ev("on_before_start_node", node)

\* stop(): one pass of `for node in self.graph.nodes`; node.stop() returns or raises
StopNode(raises) ==
    /\ pc = "stop_node"
    /\ idx < NumNodes
    /\ IF raises
         THEN /\ life_log' = life_log \o <<Ev("on_before_stop_node", idx),
                                           Ev("stop", idx)>>
              /\ error' = "NodeError"
              /\ pc' = "done"
              /\ idx' = idx
         ELSE /\ life_log' = life_log \o <<Ev("on_before_stop_node", idx),
                                           Ev("stop", idx),
                                           AfterStopNodeEvent(idx)>>
              /\ idx' = idx + 1
              /\ UNCHANGED <<error, pc>>
    /\ UNCHANGED <<run_mode, is_started, _stop_requested, _start_time, _end_time,
                   _scheduler, _execution_context, tick_log, ticked>>

\* stop() ending without notify_after_stop
StopEnd_NoNotify ==
    /\ pc = "stop_node"
    /\ idx = NumNodes
    /\ _execution_context' = None
    /\ pc' = "done"
    /\ UNCHANGED <<run_mode, is_started, _stop_requested, _start_time, _end_time,
                   _scheduler, idx, error, life_log, tick_log, ticked>>

\* stop(): notify_after_stop and the release of the execution context
StopEnd ==
    /\ pc = "stop_node"
    /\ idx = NumNodes
    /\ life_log' = Append(life_log, GraphEv("on_after_stop"))
    /\ _execution_context' = None
    /\ pc' = "done"
    /\ UNCHANGED <<run_mode, is_started, _stop_requested, _start_time, _end_time,
                   _scheduler, idx, error, tick_log, ticked>>

\* ------------------------------------------- start() / stop(), called again
\* the events of a start() in which no node's start raises
StartEvents ==
    <<GraphEv("on_before_start")>>
    \o [k \in 1 .. 3 * NumNodes |->
          Ev(<<"on_before_start_node", "start", "on_after_start_node">>[((k - 1) % 3) + 1],
             (k - 1) \div 3)]
    \o <<GraphEv("on_after_start")>>

\* the events of a stop() in which no node's stop raises
StopEvents ==
    <<GraphEv("on_before_stop")>>
    \o [k \in 1 .. 3 * NumNodes |->
          IF (k - 1) % 3 = 0 THEN Ev("on_before_stop_node", (k - 1) \div 3)
          ELSE IF (k - 1) % 3 = 1 THEN Ev("stop", (k - 1) \div 3)
          ELSE AfterStopNodeEvent((k - 1) \div 3)]
    \o <<GraphEv("on_after_stop")>>

\* start() called on the engine while run() has it started (by a node, an
\* observer or the caller's code): the whole call, no node raising
StartCall ==
    /\ pc \in {"loop", "evaluate", "eval_node", "advance"}
    /\ is_started
    /\ run_mode = "BACK_TEST"
    /\ IF ShouldStart
         THEN /\ is_started' = TRUE
              /\ _stop_requested' = FALSE
              /\ _execution_context' = BackTestExecutionContext(_start_time)
              /\ life_log' = life_log \o StartEvents
         ELSE UNCHANGED <<is_started, _stop_requested, _execution_context, life_log>>
    /\ UNCHANGED <<pc, run_mode, _start_time, _end_time, _scheduler, idx, error,
                   tick_log, ticked>>

\* stop() called on the engine while it is not started: the whole call
StopCall ==
    /\ pc \in {"idle", "done"}
    /\ ~is_started
    /\ IF ShouldStop
         THEN /\ is_started' = FALSE
              /\ life_log' = life_log \o StopEvents
              /\ _execution_context' = None
         ELSE UNCHANGED <<is_started, life_log, _execution_context>>
    /\ UNCHANGED <<pc, run_mode, _stop_requested, _start_time, _end_time, _scheduler,
                   idx, error, tick_log, ticked>>

\* ------------------------------------------------------------------ system
\* a step of run(): no start()/stop() call from outside, no comparison of runs
EngineStep == api_call' = "none" /\ UNCHANGED <<restart_vars, lib_vars>>

Next ==
    \/ (\E s \in Times, e \in Times : Run(s, e)) /\ EngineStep
    \/ Start /\ EngineStep
    \/ (\E raises \in BOOLEAN : StartNode(raises)) /\ EngineStep
    \/ StartEnd /\ EngineStep
    \/ LoopTest /\ EngineStep
    \/ EvaluateGraph /\ EngineStep
    \/ (\E raises \in BOOLEAN, delta \in 0 .. MaxDelta, tick \in BOOLEAN,
           stop \in BOOLEAN : EvalNode(raises, delta, tick, stop)) /\ EngineStep
    \/ EvaluateGraphEnd /\ EngineStep
    \/ (\E lag \in 0 .. MaxLag : advance_engine_time(lag)) /\ EngineStep
    \/ Stop /\ EngineStep
    \/ (\E raises \in BOOLEAN : StopNode(raises)) /\ EngineStep
    \/ StopEnd /\ EngineStep
    \/ StartCall /\ api_call' = "start" /\ UNCHANGED <<restart_vars, lib_vars>>
    \/ StopCall /\ api_call' = "stop" /\ UNCHANGED <<restart_vars, lib_vars>>

Spec == Init /\ [][Next]_vars

\* run() is one thread of control: a step that can be taken is taken
FairSpec == Spec /\ WF_vars(Next)

\* ------------------------------------------- two runs of the same engine
\* what the eval of a node does each time it runs: schedule(delta) when
\* delta > 0, and whether it ticks its output
Behaviours == [NonPushNodes -> [delta : 0 .. 1, tick : BOOLEAN]]

\* the engine after __init__ and initialise(), in BACK_TEST mode, its nodes'
\* behaviour fixed
RestartInit ==
    /\ pc = "idle"
    /\ run_mode = "BACK_TEST"
    /\ is_started = FALSE
    /\ _stop_requested = FALSE
    /\ _start_time = NoTime
    /\ _end_time = NoTime
    /\ _scheduler = initialise
    /\ _execution_context = None
    /\ idx = 0
    /\ error = "none"
    /\ life_log = <<>>
    /\ tick_log = <<>>
    /\ ticked = {}
    /\ api_call = "none"
    /\ run_no = 0
    /\ behaviour \in Behaviours
    /\ trace = <<>>
    /\ first_trace = <<>>
    /\ first_life_log = <<>>
    /\ LibParked

\* run(start, end), and the same run(start, end) once more when the first has
\* returned; end < MAX_DT, so that the run returns
RestartRun(start_time, end_time) ==
    /\ run_no < 2
    /\ start_time <= end_time
    /\ end_time < MAX_DT
    /\ run_no = 1 => (start_time = _start_time /\ end_time = _end_time)
    /\ Run(start_time, end_time)
    /\ run_no' = run_no + 1
    /\ trace' = <<>>
    /\ first_trace' = IF run_no = 1 THEN trace ELSE first_trace
    /\ first_life_log' = IF run_no = 1 THEN life_log ELSE first_life_log
    /\ UNCHANGED <<behaviour, api_call, lib_vars>>

\* the events the step adds to the tick, each with the engine time
NewTickEvents ==
    LET new == IF pc = "evaluate" THEN tick_log'
               ELSE IF pc = "eval_node"
                      THEN SubSeq(tick_log', Len(tick_log) + 1, Len(tick_log'))
               ELSE <<>>
    IN [k \in 1 .. Len(new) |-> <<current_engine_time, new[k]>>]

\* a step of the run, recorded
RecordedStep ==
    /\ trace' = trace \o NewTickEvents
    /\ UNCHANGED <<run_no, behaviour, first_trace, first_life_log, api_call,
                   lib_vars>>

\* the eval of the node at idx behaves as `behaviour` says
EvalAsBehaviour(delta, tick) ==
    IsScheduledNow(_scheduler[idx], current_engine_time)
        => (delta = behaviour[idx].delta /\ tick = behaviour[idx].tick)

RestartNext ==
    \/ (\E s \in Times, e \in Times : RestartRun(s, e))
    \/ Start /\ RecordedStep
    \/ StartNode(FALSE) /\ RecordedStep
    \/ StartEnd /\ RecordedStep
    \/ LoopTest /\ RecordedStep
    \/ EvaluateGraph /\ RecordedStep
    \/ (\E delta \in 0 .. 1, tick \in BOOLEAN :
           EvalNode(FALSE, delta, tick, FALSE) /\ EvalAsBehaviour(delta, tick))
       /\ RecordedStep
    \/ EvaluateGraphEnd /\ RecordedStep
    \/ (\E lag \in 0 .. MaxLag : advance_engine_time(lag)) /\ RecordedStep
    \/ Stop /\ RecordedStep
    \/ StopNode(FALSE) /\ RecordedStep
    \/ StopEnd /\ RecordedStep

RestartSpec == RestartInit /\ [][RestartNext]_vars

\* ------------------------------------------------------ PythonGraphBuilder
\* the engine is constructed and not run
EngineParked ==
    /\ pc = "idle"
    /\ run_mode = "BACK_TEST"
    /\ is_started = FALSE
    /\ _stop_requested = FALSE
    /\ _start_time = NoTime
    /\ _end_time = NoTime
    /\ _scheduler = initialise
    /\ _execution_context = None
    /\ idx = 0
    /\ error = "none"
    /\ life_log = <<>>
    /\ tick_log = <<>>
    /\ ticked = {}
    /\ api_call = "none"
    /\ RestartParked

NumBuilders == 2
MaxPathLen == 2

\* indices into node_builders
Builders == 0 .. NumBuilders - 1
\* the keys a path is made of: the item of a bundle that is itself a bundle
\* (BundleKey), and another key
BundleKey == 1
Keys == {0, BundleKey}
\* the paths of an edge: every item but the last leads into a bundle
Paths ==
    {p \in UNION {[1 .. n -> Keys] : n \in 0 .. MaxPathLen} :
        \A k \in 1 .. Len(p) - 1 : p[k] = BundleKey}
\* the time series of a node's input, and of its output, by the path from the
\* root: bundles nested MaxPathLen - 1 deep, each with the items of Keys but
\* the innermost, which has no item BundleKey
Shape ==
    {p \in Paths : Len(p) = MaxPathLen => p[Len(p)] # BundleKey}

Edge == [src_node : Builders, dst_node : Builders,
         output_path : Paths, input_path : Paths]

\* the order of paths (tuples compare item by item, a prefix first)
RECURSIVE PathLess(_, _)
PathLess(p, q) ==
    IF q = <<>> THEN FALSE
    ELSE IF p = <<>> THEN TRUE
    ELSE IF Head(p) # Head(q) THEN Head(p) < Head(q)
    ELSE PathLess(Tail(p), Tail(q))

\* the canonical order of edges: by (src_node, dst_node, output_path, input_path)
EdgeLess(e, f) ==
    IF e.src_node # f.src_node THEN e.src_node < f.src_node
    ELSE IF e.dst_node # f.dst_node THEN e.dst_node < f.dst_node
    ELSE IF e.output_path # f.output_path THEN PathLess(e.output_path, f.output_path)
    ELSE PathLess(e.input_path, f.input_path)

\* an edge from a producer to a later node
FwdEdge == {e \in Edge : e.src_node < e.dst_node}

\* the edge lists of a builder, of no, one and two edges: in the canonical
\* order, no two edges to the same input
EdgeLists ==
    {<<>>}
    \cup {<<e>> : e \in FwdEdge}
    \cup {<<p[1], p[2]>> : p \in
             {q \in FwdEdge \X FwdEdge :
                 /\ EdgeLess(q[1], q[2])
                 /\ <<q[1].dst_node, q[1].input_path>>
                        # <<q[2].dst_node, q[2].input_path>>}}

\* a call recorded: on node builder `builder` (or -1), for node `node` (or -1)
BEv(ev, builder, node) == [ev |-> ev, builder |-> builder, node |-> node]

\* a time series of a node: its input or its output, or an item below it
TS(kind, node, path) == [kind |-> kind, node |-> node, path |-> path]
\* the exception of a subscript that does not exist
Missing == TS("missing", -1, <<>>)
\* ts[item]
GetItem(ts, item) ==
    IF ts # Missing /\ Append(ts.path, item) \in Shape
      THEN TS(ts.kind, ts.node, Append(ts.path, item))
      ELSE Missing

\* `for item in path: output = output[item]`
RECURSIVE Walk(_, _)
Walk(ts, path) ==
    IF path = <<>> THEN ts
    ELSE Walk(GetItem(ts, Head(path)), Tail(path))

\* _extract_output without the loop over the path
_extract_output_NoWalk(node, path) ==
    IF path = <<>> THEN Missing ELSE TS("output", node, <<>>)

\* _extract_output: RuntimeError on an empty path
_extract_output(node, path) ==
    IF path = <<>> THEN Missing ELSE Walk(TS("output", node, <<>>), path)

\* _extract_input
_extract_input(node, path) ==
    IF path = <<>> THEN Missing ELSE Walk(TS("input", node, <<>>), path)

\* the builder after wiring: its node_builders and edges
BuilderInit ==
    /\ EngineParked
    /\ MoreParked
    /\ builder_pc = "built"
    /\ edges \in EdgeLists
    /\ nodes = <<>>
    /\ edge_no = 0
    /\ bound = {}
    /\ build_log = <<>>
    /\ graph_nodes = <<>>
    /\ WiringParked
    /\ TypesParked

\* `nodes = [nb.make_instance(graph_id) for nb in self.node_builders]` in the
\* opposite order
MakeNodes_Reversed == [i \in 1 .. NumBuilders |-> NumBuilders - i]

\* `nodes = [nb.make_instance(graph_id) for nb in self.node_builders]`: the
\* instance of node builder i is named i
MakeNodes == [i \in 1 .. NumBuilders |-> i - 1]

\* make_instance: the loop over the nodes comes first
AfterMakeNodes_Initialise == "initialise"

\* make_instance: the statement after the list of nodes is made, the loop
\* over the edges
AfterMakeNodes == "wire"

\* make_instance, to the first edge
MakeInstance ==
    /\ builder_pc = "built"
    /\ nodes' = MakeNodes
    /\ build_log' = [i \in 1 .. NumBuilders |-> BEv("make_instance", i - 1, i - 1)]
    /\ edge_no' = 0
    /\ builder_pc' = AfterMakeNodes
    /\ UNCHANGED <<edges, bound, graph_nodes>>

\* make_instance: the body of `for edge in self.edges`, or the end of the loop
WireEdge ==
    /\ builder_pc = "wire"
    /\ IF edge_no = Len(edges)
         THEN /\ builder_pc' = "initialise"
              /\ edge_no' = 0
              /\ UNCHANGED <<bound, build_log>>
         ELSE LET edge == edges[edge_no + 1]
                  src_node == nodes[edge.src_node + 1]
                  dst_node == nodes[edge.dst_node + 1]
                  output == _extract_output(src_node, edge.output_path)
                  input_ == _extract_input(dst_node, edge.input_path)
              IN IF output = Missing \/ input_ = Missing
                   THEN /\ builder_pc' = "failed"
                        /\ UNCHANGED <<bound, build_log, edge_no>>
                   ELSE /\ bound' = {b \in bound : b[1] # input_}
                                       \cup {<<input_, output>>}
                        /\ build_log' = Append(build_log, BEv("wire", -1, edge_no))
                        /\ edge_no' = edge_no + 1
                        /\ UNCHANGED builder_pc
    /\ UNCHANGED <<edges, nodes, graph_nodes>>

\* make_instance: the body of `for node in nodes: node.initialise()`
InitialiseNode ==
    /\ builder_pc = "initialise"
    /\ edge_no < Len(nodes)
    /\ build_log' = Append(build_log, BEv("initialise", -1, nodes[edge_no + 1]))
    /\ edge_no' = edge_no + 1
    /\ UNCHANGED <<builder_pc, edges, nodes, bound, graph_nodes>>

\* make_instance: `return GraphImpl(graph_id=graph_id, nodes=tuple(nodes))`
ReturnGraph ==
    /\ builder_pc = "initialise"
    /\ edge_no = Len(nodes)
    /\ graph_nodes' = nodes
    /\ builder_pc' = "returned"
    /\ UNCHANGED <<edges, nodes, edge_no, bound, build_log>>

\* release_instance, to the first loop
ReleaseInstance ==
    /\ builder_pc = "returned"
    /\ builder_pc' = "release"
    /\ edge_no' = 0
    /\ UNCHANGED <<edges, nodes, bound, build_log, graph_nodes>>

\* the nodes paired with the node builders from the other end
ZipNode_Reversed(i) == graph_nodes[NumBuilders - i]

\* `zip(item.nodes, self.node_builders)`: the node paired with node builder i
ZipNode(i) == graph_nodes[i + 1]

\* release_instance: the body of
\* `for node, node_builder in zip(item.nodes, self.node_builders)`
ReleaseNode ==
    /\ builder_pc = "release"
    /\ build_log' = Append(build_log,
                           BEv("release_instance", edge_no, ZipNode(edge_no)))
    /\ IF edge_no + 1 = NumBuilders
         THEN builder_pc' = "dispose" /\ edge_no' = 0
         ELSE edge_no' = edge_no + 1 /\ UNCHANGED builder_pc
    /\ UNCHANGED <<edges, nodes, bound, graph_nodes>>

\* release_instance: the body of `for node in item.nodes: node.dispose()`
DisposeNode ==
    /\ builder_pc = "dispose"
    /\ edge_no < Len(graph_nodes)
    /\ build_log' = Append(build_log, BEv("dispose", -1, graph_nodes[edge_no + 1]))
    /\ edge_no' = edge_no + 1
    /\ UNCHANGED <<builder_pc, edges, nodes, bound, graph_nodes>>

\* release_instance: `item.dispose()`
DisposeGraph ==
    /\ builder_pc = "dispose"
    /\ edge_no = Len(graph_nodes)
    /\ build_log' = Append(build_log, BEv("dispose_graph", -1, -1))
    /\ builder_pc' = "released"
    /\ UNCHANGED <<edges, nodes, edge_no, bound, graph_nodes>>

\* a step of the builder leaves the engine alone
BuilderStep == UNCHANGED <<engine_vars, api_call, restart_vars, more_vars, wiring_vars, types_vars>>

BuilderNext ==
    \/ MakeInstance /\ BuilderStep
    \/ WireEdge /\ BuilderStep
    \/ InitialiseNode /\ BuilderStep
    \/ ReturnGraph /\ BuilderStep
    \/ ReleaseInstance /\ BuilderStep
    \/ ReleaseNode /\ BuilderStep
    \/ DisposeNode /\ BuilderStep
    \/ DisposeGraph /\ BuilderStep

BuilderSpec == BuilderInit /\ [][BuilderNext]_vars

\* ------------------------------------- create_graph_builder and toposort
NumWiringNodes == 3

\* the wiring node instances
WNodes == 0 .. NumWiringNodes - 1

\* the members of the two enumerations the module imports
NodeTypeEnum(member) == <<"NodeTypeEnum", member>>
WiringNodeType(member) == <<"WiringNodeType", member>>
\* resolved_signature.node_type is a WiringNodeType
NodeTypes ==
    {WiringNodeType(m) : m \in {"PUSH_SOURCE_NODE", "PULL_SOURCE_NODE",
                                "COMPUTE_NODE", "SINK_NODE", "STUB"}}

\* WiringNodeInstance.is_source_node, is_stub
IsSourceType(t) ==
    t \in {WiringNodeType("PUSH_SOURCE_NODE"), WiringNodeType("PULL_SOURCE_NODE")}
is_source_node(n) == IsSourceType(node_type[n])
is_stub(n) == node_type[n] = WiringNodeType("STUB")

\* an absent key of processed_nodes and of node_map
NoRank == -1
\* `processed_nodes[to_node] = 1`
InitialRank == 1

\* the elements of a set of numbers in ascending order
RECURSIVE Ascending(_)
Ascending(S) ==
    IF S = {} THEN <<>>
    ELSE LET m == CHOOSE x \in S : \A y \in S : x <= y
         IN <<m>> \o Ascending(S \ {m})

\* the orders in which a set can be iterated
Perms(S) ==
    {f \in [1 .. Cardinality(S) -> S] : \A j, k \in DOMAIN f : f[j] = f[k] => j = k}

Max(a, b) == IF a >= b THEN a ELSE b

\* the pairs <<producer, consumer>> a wiring graph can have: no cycle (the
\* producer is the node made first), a sink feeds nothing, a source has no input
AllowedPairs(nt) ==
    {pr \in WNodes \X WNodes :
        /\ pr[1] < pr[2]
        /\ nt[pr[1]] # WiringNodeType("SINK_NODE")
        /\ ~IsSourceType(nt[pr[2]])}

\* the wiring graphs with node types nt: every node but a source has an
\* input, and every node is a sink node or feeds one (or there is no sink node)
WiringGraphs(nt) ==
    {f \in {[c \in WNodes |-> {p \in WNodes : <<p, c>> \in E}] :
               E \in SUBSET AllowedPairs(nt)} :
        /\ \A c \in WNodes : IsSourceType(nt[c]) \/ f[c] # {}
        /\ \/ \A n \in WNodes : IsSourceType(nt[n])
           \/ \A p \in WNodes :
                 \/ nt[p] = WiringNodeType("SINK_NODE")
                 \/ \E c \in WNodes : p \in f[c]}

\* the wiring of a graph is done: its nodes, and the call to make
WiringInit ==
    /\ EngineParked
    /\ MoreParked
    /\ BuilderParked
    /\ TypesParked
    /\ wiring_pc = "wired"
    /\ node_type \in [WNodes -> NodeTypes]
    /\ inputs \in WiringGraphs(node_type)
    /\ sink_nodes =
          Ascending({n \in WNodes : node_type[n] = WiringNodeType("SINK_NODE")})
    /\ supports_push_nodes \in BOOLEAN
    /\ mapping = [n \in WNodes |-> {}]
    /\ nodes_to_process = <<>>
    /\ source_nodes = {}
    /\ processed_nodes = [n \in WNodes |-> NoRank]
    /\ max_rank = 0
    /\ ranked_nodes = <<>>
    /\ node_map = [n \in WNodes |-> NoRank]
    /\ node_builders = <<>>
    /\ edge_set = {}
    /\ built_edges = <<>>

\* create_graph_builder to the call of toposort, and toposort to its first loop
CreateGraphBuilder ==
    /\ wiring_pc = "wired"
    /\ IF sink_nodes = <<>>
         THEN /\ wiring_pc' = "RuntimeError"
              /\ UNCHANGED nodes_to_process
         ELSE /\ wiring_pc' = "collect"
              /\ nodes_to_process' = sink_nodes
    /\ UNCHANGED <<node_type, inputs, sink_nodes, supports_push_nodes, mapping,
                   source_nodes, processed_nodes, max_rank, ranked_nodes, node_map,
                   node_builders, edge_set, built_edges>>

\* toposort: the body of the first loop, for the node at the left of the deque
CollectNode ==
    /\ wiring_pc = "collect"
    /\ nodes_to_process # <<>>
    /\ LET to_node == Head(nodes_to_process)
           ts_nodes == inputs[to_node]
           sources == {n \in ts_nodes : is_source_node(n)}
       IN IF processed_nodes[to_node] # NoRank
            THEN /\ nodes_to_process' = Tail(nodes_to_process)
                 /\ UNCHANGED <<mapping, source_nodes, processed_nodes>>
            ELSE /\ processed_nodes' =
                       [n \in WNodes |->
                           IF n = to_node \/ n \in sources THEN InitialRank
                           ELSE processed_nodes[n]]
                 /\ mapping' =
                       [n \in WNodes |->
                           IF n \in ts_nodes THEN mapping[n] \cup {to_node}
                           ELSE mapping[n]]
                 /\ source_nodes' = source_nodes \cup sources
                 /\ nodes_to_process' =
                       Tail(nodes_to_process) \o Ascending(ts_nodes \ sources)
    /\ UNCHANGED <<wiring_pc, node_type, inputs, sink_nodes, supports_push_nodes,
                   max_rank, ranked_nodes, node_map, node_builders, edge_set,
                   built_edges>>

\* toposort: `nodes_to_process.extend(source_nodes)`, `max_rank = 0`
StartRanking ==
    /\ wiring_pc = "collect"
    /\ nodes_to_process = <<>>
    /\ \E order \in Perms(source_nodes) : nodes_to_process' = order
    /\ max_rank' = 0
    /\ wiring_pc' = "rank"
    /\ UNCHANGED <<node_type, inputs, sink_nodes, supports_push_nodes, mapping,
                   source_nodes, processed_nodes, ranked_nodes, node_map,
                   node_builders, edge_set, built_edges>>

\* the rank of a consumer, not incremented
Increment_None(rank) == rank

\* `processed_nodes[from_node] + 1`
Increment(rank) == rank + 1

\* a push source node keeps its rank
PushSourceRank_NoReset == InitialRank

\* `processed_nodes[from_node] = 0` of a push source node
PushSourceRank == 0

\* toposort: the body of the second loop, for the node at the right of the deque
RankNode ==
    /\ wiring_pc = "rank"
    /\ nodes_to_process # <<>>
    /\ LET from_node == nodes_to_process[Len(nodes_to_process)]
           rest == SubSeq(nodes_to_process, 1, Len(nodes_to_process) - 1)
           rank == IF node_type[from_node] = WiringNodeType("PUSH_SOURCE_NODE")
                     THEN PushSourceRank
                     ELSE processed_nodes[from_node]
       IN IF ~supports_push_nodes
               /\ node_type[from_node] = NodeTypeEnum("PUSH_SOURCE_NODE")
            THEN /\ wiring_pc' = "CustomMessageWiringError"
                 /\ UNCHANGED <<nodes_to_process, processed_nodes, max_rank>>
            ELSE /\ processed_nodes' =
                       [n \in WNodes |->
                           IF n \in mapping[from_node]
                             THEN Max(processed_nodes[n], Increment(rank))
                           ELSE IF n = from_node THEN rank
                           ELSE processed_nodes[n]]
                 /\ \E order \in Perms(mapping[from_node]) :
                       nodes_to_process' = rest \o order
                 /\ max_rank' =
                       IF mapping[from_node] = {} THEN max_rank
                       ELSE Max(max_rank,
                                CHOOSE r \in {processed_nodes'[n] : n \in mapping[from_node]} :
                                    \A n \in mapping[from_node] : processed_nodes'[n] <= r)
                 /\ UNCHANGED wiring_pc
    /\ UNCHANGED <<node_type, inputs, sink_nodes, supports_push_nodes, mapping,
                   source_nodes, ranked_nodes, node_map, node_builders, edge_set,
                   built_edges>>

\* a sink node given the rank of a node not yet ranked
SinkRank_Initial(n) == InitialRank

\* `processed_nodes[node] = max_rank` for the nodes toposort was called with
SinkRank(n) == max_rank

\* toposort: the sink nodes get max_rank, the nodes are sorted by rank (nodes
\* of one rank in any order) and the stubs are dropped
SortNodes ==
    /\ wiring_pc = "rank"
    /\ nodes_to_process = <<>>
    /\ processed_nodes' =
          [n \in WNodes |->
              IF \E k \in DOMAIN sink_nodes : sink_nodes[k] = n
                THEN SinkRank(n) ELSE processed_nodes[n]]
    /\ \E order \in Perms({n \in WNodes : processed_nodes'[n] # NoRank}) :
          /\ \A j, k \in DOMAIN order :
                j < k => processed_nodes'[order[j]] <= processed_nodes'[order[k]]
          /\ ranked_nodes' = SelectSeq(order, LAMBDA n : ~is_stub(n))
    /\ wiring_pc' = "build"
    /\ UNCHANGED <<node_type, inputs, sink_nodes, supports_push_nodes, mapping,
                   nodes_to_process, source_nodes, max_rank, node_map, node_builders,
                   edge_set, built_edges>>

\* the nodes whose outputs the inputs of a node are bound to: a stub stands
\* for the nodes of its own inputs
RECURSIVE RealProducers(_)
RealProducers(n) ==
    UNION {IF is_stub(p) THEN RealProducers(p) ELSE {p} : p \in inputs[n]}

\* the index of the node builder taken from the length of ranked_nodes
Ndx_OfRanked == Len(ranked_nodes)

\* `ndx = len(node_builders)`
Ndx == Len(node_builders)

\* create_node_builder_and_edges: an edge from the node builder of each
\* producer; a producer without a node builder is a KeyError
InputEdges(wiring_node, ndx) ==
    {[src_node |-> node_map[p], dst_node |-> ndx,
      output_path |-> <<0>>, input_path |-> <<0>>] : p \in RealProducers(wiring_node)}

\* create_graph_builder: the body of `for wiring_node in ranked_nodes`
BuildNode ==
    /\ wiring_pc = "build"
    /\ Len(node_builders) < Len(ranked_nodes)
    /\ LET wiring_node == ranked_nodes[Len(node_builders) + 1]
           ndx == Ndx
       IN IF \E p \in RealProducers(wiring_node) : node_map[p] = NoRank
            THEN /\ wiring_pc' = "KeyError"
                 /\ UNCHANGED <<node_map, node_builders, edge_set>>
            ELSE /\ node_builders' = Append(node_builders, wiring_node)
                 /\ edge_set' = edge_set \cup InputEdges(wiring_node, ndx)
                 /\ node_map' = [node_map EXCEPT ![wiring_node] = ndx]
                 /\ UNCHANGED wiring_pc
    /\ UNCHANGED <<node_type, inputs, sink_nodes, supports_push_nodes, mapping,
                   nodes_to_process, source_nodes, processed_nodes, max_rank,
                   ranked_nodes, built_edges>>

\* the elements of a set in some order
RECURSIVE SetToSeq(_)
SetToSeq(S) ==
    IF S = {} THEN <<>>
    ELSE LET x == CHOOSE y \in S : TRUE IN <<x>> \o SetToSeq(S \ {x})

\* create_graph_builder: `return GraphBuilderFactory.make(...)`, the edges
\* sorted by (src_node, dst_node, output_path, input_path)
ReturnBuilder ==
    /\ wiring_pc = "build"
    /\ Len(node_builders) = Len(ranked_nodes)
    /\ built_edges' = SortSeq(SetToSeq(edge_set), EdgeLess)
    /\ wiring_pc' = "returned"
    /\ UNCHANGED <<node_type, inputs, sink_nodes, supports_push_nodes, mapping,
                   nodes_to_process, source_nodes, processed_nodes, max_rank,
                   ranked_nodes, node_map, node_builders, edge_set>>

\* a step of the wiring leaves the engine and the graph builder alone
WiringStep == UNCHANGED <<engine_vars, api_call, restart_vars, more_vars, builder_vars, types_vars>>

WiringNext ==
    \/ CreateGraphBuilder /\ WiringStep
    \/ CollectNode /\ WiringStep
    \/ StartRanking /\ WiringStep
    \/ RankNode /\ WiringStep
    \/ SortNodes /\ WiringStep
    \/ BuildNode /\ WiringStep
    \/ ReturnBuilder /\ WiringStep

WiringSpec == WiringInit /\ [][WiringNext]_vars

\* create_graph_builder runs on: it is one call, nothing else is scheduled
WiringFairSpec == WiringSpec /\ WF_vars(WiringNext)

\* ------------------------------------------------------ properties: helpers
Range(seq) == {seq[p] : p \in 1 .. Len(seq)}
CountEv(log, e) == Cardinality({p \in 1 .. Len(log) : log[p] = e})
Evaluated(log) == {e.node : e \in {x \in Range(log) : x.ev = "eval"}}
InLoop == pc \in {"loop", "evaluate", "eval_node", "advance"}
LoopEntered == GraphEv("on_after_start") \in Range(life_log)
\* the nodes evaluated by the step: evaluate_graph() begins a new tick log
NewlyEvaluated ==
    IF tick_log' = tick_log THEN {}
    ELSE IF pc = "evaluate" THEN Evaluated(tick_log')
    ELSE IF pc = "eval_node" THEN Evaluated(tick_log') \ Evaluated(tick_log)
    ELSE {}
HasModifiedInput(i) == \E p \in Producers(i) : p \in ticked

\* C1: once request_stop() was called in a tick and advance_engine_time has
\* snapped the clock to end_time, the loop exits: no evaluate_graph begins
\* while a stop is requested (start() clears the flag, only a tick sets it).
C1_NoTickAfterStop == (pc = "evaluate") => ~_stop_requested

\* C2: in BACK_TEST mode with no stop request, every run(start, end) with
\* start <= end, end = MAX_DT included, leaves its loop: from each loop test
\* the run eventually ends (or a stop is requested).
C2_RunReturns == (pc = "loop") ~> (pc = "done" \/ _stop_requested)

\* C3: no scheduled evaluation is skipped: advance_engine_time, with no stop
\* requested, never moves the clock past a scheduler slot of a non-push node
\* that lies after the current engine time and not after end_time.
C3_NoScheduledTickSkipped ==
    [][(pc = "advance" /\ ~_stop_requested) =>
          \A i \in NonPushNodes :
             (current_engine_time < _scheduler[i] /\ _scheduler[i] <= _end_time)
                => current_engine_time' <= _scheduler[i]]_vars

\* C4: a node is evaluated in a tick only if it has a modified input in that
\* tick, or its scheduler slot equals the engine time, or it is a push source
\* and push_has_pending_values was set; a non-push node whose slot differs
\* from the engine time and that has no modified input is not evaluated.
C4_EvaluatedOnlyIfDue ==
    [][\A i \in NewlyEvaluated :
          IF i \in PushNodes THEN push_has_pending_values
          ELSE _scheduler[i] = current_engine_time \/ HasModifiedInput(i)]_vars

\* C4 witness: a tick in which node 1 ticked its output and its consumer was evaluated
C4_Witness ==
    /\ pc = "eval_node"
    /\ 1 \in ticked
    /\ Ev("eval", 2) \in Range(tick_log)

\* C5: current_engine_time never decreases across the steps of a run's loop,
\* with or without a stop request.
C5_TimeNonDecreasing ==
    [][InLoop => current_engine_time' >= current_engine_time]_vars

\* C5 witness: advance_engine_time has moved the clock forward, after a stop request
C5_Witness ==
    /\ pc = "loop"
    /\ _stop_requested
    /\ current_engine_time > _start_time

C7_BackTestPushInert ==
    [][run_mode = "BACK_TEST" =>
          /\ ~push_has_pending_values
          /\ Evaluated(tick_log') \cap PushNodes = {}
          /\ ((\E lag \in 0 .. MaxLag : advance_engine_time(lag))
                 /\ ~_stop_requested)
                => current_engine_time' = proposed_next_engine_time]_vars

\* C7 witness: a back-test tick completed and the clock advanced with no stop request
C7_Witness ==
    /\ run_mode = "BACK_TEST"
    /\ pc = "loop"
    /\ ~_stop_requested
    /\ Len(tick_log) > 0
    /\ current_engine_time = proposed_next_engine_time
    /\ current_engine_time > _start_time

\* C8: run(start, end) with end < start fails before the engine is started:
\* no node started, evaluated or stopped, no observer callback, is_started false.
C8_InvalidRangeFailsEarly ==
    (pc # "idle" /\ _end_time < _start_time) =>
        /\ pc = "done"
        /\ error = "ValueError"
        /\ life_log = <<>>
        /\ tick_log = <<>>
        /\ ~is_started

\* C8 witness: run was called with end < start
C8_Witness == pc = "done" /\ error = "ValueError" /\ _end_time < _start_time

\* C9 as stated: however run left its loop, when it ends on_after_stop has
\* been emitted exactly once and is_started is false.
C9_AfterStopExactlyOnce ==
    (pc = "done" /\ LoopEntered) =>
        /\ CountEv(life_log, GraphEv("on_after_stop")) = 1
        /\ ~is_started

\* a node's stop raised: stop() was left at that node
StopRaised ==
    Len(life_log) > 0 /\ life_log[Len(life_log)].ev = "stop"

\* C9 amended: however run left its loop, when it ends stop() has been
\* entered exactly once (on_before_stop) and is_started is false;
\* on_after_stop has been emitted exactly once unless a node's stop raised,
\* and then stop() was left at that node without emitting it.
C9_StopOnEveryExit ==
    (pc = "done" /\ LoopEntered) =>
        /\ ~is_started
        /\ CountEv(life_log, GraphEv("on_before_stop")) = 1
        /\ CountEv(life_log, GraphEv("on_after_stop")) = (IF StopRaised THEN 0 ELSE 1)

\* C9 witness: a node's eval raised, run propagates it after a complete stop()
C9_Witness ==
    /\ pc = "done"
    /\ LoopEntered
    /\ error = "NodeError"
    /\ \E i \in NonPushNodes : tick_log[Len(tick_log)] = Ev("eval", i)
    /\ CountEv(life_log, GraphEv("on_after_stop")) = 1

\* the start of node k raised
StartFailedAt(k) ==
    /\ Ev("start", k) \in Range(life_log)
    /\ Ev("on_after_start_node", k) \notin Range(life_log)

\* C10: if the start of node k fails, the error propagates, the nodes after k
\* are never started, and stop is invoked on exactly the nodes 0..k-1 whose
\* start had completed, on no node that was never started.
C10_StopOnlyStartedNodes ==
    \A k \in Nodes : StartFailedAt(k) =>
        /\ \A j \in Nodes : Ev("start", j) \in Range(life_log) => j <= k
        /\ \A i \in Nodes : Ev("stop", i) \in Range(life_log) => i < k
        /\ pc = "done" =>
              /\ error # "none"
              /\ \A i \in Nodes : i < k => Ev("stop", i) \in Range(life_log)

\* C11: start() is idempotent: called on an engine that is already started it
\* starts no node, emits no notification and leaves the execution context,
\* current_engine_time and stop_requested unchanged; stop() called on an
\* engine that is not started does nothing either.
C11_StartStopIdempotent ==
    [][(StartCall \/ StopCall) => UNCHANGED engine_vars]_vars

\* C11 witness: start() was just called on a started engine whose clock has
\* moved on from the start time and that holds a stop request
C11_Witness ==
    /\ api_call = "start"
    /\ is_started
    /\ _stop_requested
    /\ current_engine_time > _start_time

\* C12: determinism across restart in BACK_TEST mode: run(start, end), and
\* once it has stopped run(start, end) again on the same engine with the same
\* node behaviour, give the same sequence of (engine time, event) pairs and
\* the same start/stop notification sequence.
C12_RestartDeterministic ==
    (run_no = 2 /\ pc = "done") =>
        (trace = first_trace /\ life_log = first_life_log)

\* ------------------------------------------------ properties: the builder
BuildEvents(ev) == {k \in 1 .. Len(build_log) : build_log[k].ev = ev}
\* make_instance has returned a graph
Returned == builder_pc \in {"returned", "release", "dispose", "released"}

\* C13: in make_instance every node instance is constructed before any edge
\* is wired, every edge is wired before any node's initialise is called, every
\* node is initialised exactly once, and the returned graph's nodes[i] is the
\* instance made by node_builders[i].
C13_MakeInstanceOrder ==
    /\ \A w \in BuildEvents("wire") :
          /\ Cardinality({m \in BuildEvents("make_instance") : m < w}) = NumBuilders
          /\ \A i \in BuildEvents("initialise") : w < i
    /\ BuildEvents("initialise") # {} =>
          /\ Cardinality(BuildEvents("wire")) = Len(edges)
          /\ Cardinality(BuildEvents("make_instance")) = NumBuilders
    /\ \A j, k \in BuildEvents("initialise") :
          build_log[j].node = build_log[k].node => j = k
    /\ Returned =>
          /\ \A i \in Builders :
                /\ \E k \in BuildEvents("initialise") : build_log[k].node = nodes[i + 1]
                /\ BEv("make_instance", i, graph_nodes[i + 1]) \in Range(build_log)
          /\ Len(graph_nodes) = NumBuilders

\* C13 witness: a graph was returned for a builder with two edges
C13_Witness ==
    /\ builder_pc = "returned"
    /\ Len(edges) = 2
    /\ Cardinality(BuildEvents("wire")) = Len(edges)
    /\ Cardinality(BuildEvents("initialise")) = NumBuilders

\* the input, and the output, an edge names in the graph returned
EdgeInput(e) == Walk(TS("input", graph_nodes[e.dst_node + 1], <<>>), e.input_path)
EdgeOutput(e) == Walk(TS("output", graph_nodes[e.src_node + 1], <<>>), e.output_path)

\* C14: after make_instance returns, for every declared edge the input reached
\* by walking input_path from nodes[dst].input is bound to exactly the output
\* reached by walking output_path from nodes[src].output, whatever the length
\* of the paths, and the inputs no edge targets are unbound.
C14_BindingsMatchEdges ==
    Returned =>
        /\ \A k \in 1 .. Len(edges) :
              /\ EdgeInput(edges[k]) # Missing
              /\ EdgeOutput(edges[k]) # Missing
              /\ \A b \in bound :
                    b[1] = EdgeInput(edges[k]) => b[2] = EdgeOutput(edges[k])
              /\ \E b \in bound : b[1] = EdgeInput(edges[k])
        /\ \A b \in bound : \E k \in 1 .. Len(edges) : b[1] = EdgeInput(edges[k])

\* C14 witness: a graph returned with two edges bound, one by a path of one
\* item and one by paths of MaxPathLen items
C14_Witness ==
    /\ builder_pc = "returned"
    /\ Len(edges) = 2
    /\ Cardinality(bound) = 2
    /\ \E k \in 1 .. 2 : Len(edges[k].output_path) = 1
    /\ \E k \in 1 .. 2 :
          /\ Len(edges[k].output_path) = MaxPathLen
          /\ Len(edges[k].input_path) = MaxPathLen

\* a path that names a time series
Resolvable(path) == path # <<>> /\ path \in Shape

\* C15: if an edge of the builder has a path that cannot be resolved,
\* make_instance returns no graph and no node's initialise is called.
C15_BadPathAborts ==
    (\E k \in 1 .. Len(edges) :
        ~Resolvable(edges[k].output_path) \/ ~Resolvable(edges[k].input_path))
    => /\ builder_pc \in {"built", "wire", "failed"}
       /\ BuildEvents("initialise") = {}
       /\ graph_nodes = <<>>

\* C15 witness: make_instance failed at its second edge, whose output path
\* names a missing item, with the first edge wired
C15_Witness ==
    /\ builder_pc = "failed"
    /\ edge_no = 1
    /\ Cardinality(bound) = 1
    /\ edges[2].output_path # <<>>
    /\ edges[2].output_path \notin Shape

\* C16: release_instance invokes for every node i node_builders[i]'s release
\* hook on graph.nodes[i] and then that node's dispose, each exactly once, the
\* hook before the dispose of the same node, and disposes the graph only after
\* every node has been released and disposed.
C16_ReleaseOrder ==
    /\ \A r \in BuildEvents("release_instance") :
          /\ build_log[r].node = graph_nodes[build_log[r].builder + 1]
          /\ \A q \in BuildEvents("release_instance") :
                build_log[q].builder = build_log[r].builder => q = r
    /\ \A d \in BuildEvents("dispose") :
          /\ \E r \in BuildEvents("release_instance") :
                r < d /\ build_log[r].node = build_log[d].node
          /\ \A c \in BuildEvents("dispose") :
                build_log[c].node = build_log[d].node => c = d
    /\ \A g \in BuildEvents("dispose_graph") :
          /\ \A i \in Builders :
                /\ \E r \in BuildEvents("release_instance") :
                      r < g /\ build_log[r].builder = i
                /\ \E d \in BuildEvents("dispose") :
                      d < g /\ build_log[d].node = graph_nodes[i + 1]
          /\ g = Len(build_log)
    /\ builder_pc = "released" => Cardinality(BuildEvents("dispose_graph")) = 1

\* C16 witness: release_instance has returned
C16_Witness ==
    /\ builder_pc = "released"
    /\ Cardinality(BuildEvents("release_instance")) = NumBuilders
    /\ Cardinality(BuildEvents("dispose")) = NumBuilders
    /\ build_log[Len(build_log)].ev = "dispose_graph"

\* ------------------------------------------------- properties: the wiring
\* toposort has returned
ToposortReturned == wiring_pc \in {"build", "returned", "KeyError"}
\* the wiring nodes toposort has reached from the sink nodes
Reached == {n \in WNodes : processed_nodes[n] # NoRank}
PushSources == {n \in WNodes : node_type[n] = WiringNodeType("PUSH_SOURCE_NODE")}

\* C17: for a finite acyclic wiring graph reachable from a non-empty set of
\* sinks toposort terminates, and the final ranks (after the push-source reset
\* and the sink reassignment) have rank(producer) < rank(consumer) for every
\* producer-to-consumer edge.
C17_RanksIncreaseAlongEdges ==
    /\ (wiring_pc = "collect") ~> ToposortReturned
    /\ [](ToposortReturned =>
             \A c \in Reached : \A p \in inputs[c] :
                 /\ p \in Reached
                 /\ processed_nodes[p] < processed_nodes[c])

\* C17 witness: toposort returned for a graph in which a node has two
\* producers of different ranks, the higher of them a consumer of the lower
C17_Witness ==
    /\ wiring_pc = "build"
    /\ \E c \in WNodes : \E p, q \in inputs[c] :
          /\ p \in inputs[q]
          /\ processed_nodes[p] < processed_nodes[q]
          /\ processed_nodes[q] < processed_nodes[c]

\* C18: in every builder returned by create_graph_builder every edge has
\* src_node < dst_node and both indices refer to node builders present in the
\* builder; a stub node has no node builder and is no edge endpoint.
C18_EdgesForward ==
    /\ \A e \in edge_set :
          /\ 0 <= e.src_node
          /\ e.src_node < e.dst_node
          /\ e.dst_node < Len(node_builders)
          /\ ~is_stub(node_builders[e.src_node + 1])
          /\ ~is_stub(node_builders[e.dst_node + 1])
    /\ \A k \in 1 .. Len(node_builders) : ~is_stub(node_builders[k])
    /\ wiring_pc = "returned" =>
          /\ {built_edges[k] : k \in DOMAIN built_edges} = edge_set
          /\ Len(built_edges) = Cardinality(edge_set)

\* C18 witness: a builder returned for a graph with a stub node between a
\* source and a sink, with the edge that passes the stub
C18_Witness ==
    /\ wiring_pc = "returned"
    /\ Len(built_edges) >= 1
    /\ \E n \in Reached : is_stub(n) /\ mapping[n] # {}
    /\ Len(node_builders) < Cardinality(Reached)

\* C19: in the node order emitted by toposort the push-source nodes form a
\* prefix: every push-source node precedes every node that is not one.
C19_PushSourcesFirst ==
    ToposortReturned =>
        \A j, k \in 1 .. Len(ranked_nodes) :
            (j < k /\ ranked_nodes[k] \in PushSources) => ranked_nodes[j] \in PushSources

\* C19 witness: an order emitted with a push source and a pull source, the
\* push source the wiring node made later
C19_Witness ==
    /\ wiring_pc = "build"
    /\ \E j, k \in 1 .. Len(ranked_nodes) :
          /\ j < k
          /\ ranked_nodes[j] \in PushSources
          /\ node_type[ranked_nodes[k]] = WiringNodeType("PULL_SOURCE_NODE")
          /\ ranked_nodes[k] < ranked_nodes[j]

\* C20: create_graph_builder called with supports_push_nodes = false returns
\* no builder (it fails with a wiring error) whenever a push-source node is
\* reachable from the sink nodes.
C20_PushSourceRejected ==
    (~supports_push_nodes /\ (source_nodes \cap PushSources) # {})
        => wiring_pc # "returned"

\* ------------------------------------- properties: the engine, continued
\* C29: after initialise(), in the first tick of run(start, end) every
\* non-push node is evaluated, for every start time.
C29_AllEvaluatedInFirstTick ==
    (run_no = 1 /\ pc = "advance" /\ current_engine_time = _start_time)
        => NonPushNodes \subseteq Evaluated(tick_log)

\* the least scheduler slot of the nodes after the push source nodes
MinSlot == CHOOSE t \in {_scheduler[i] : i \in NonPushNodes} :
               \A i \in NonPushNodes : t <= _scheduler[i]

\* C30: whenever advance_engine_time reads proposed_next_engine_time, its
\* value is the minimum of the scheduler slots of all non-push nodes.
C30_ProposedIsMinSlot ==
    pc = "advance" => proposed_next_engine_time = MinSlot

\* ------------------------------------------ PythonTimeSeriesSetOutput
\* the elements a set holds
MaxElem == 3
Elems == 1 .. MaxElem

\* the results a node returns to a set output
SetDeltas == [kind : {"SetDelta"}, added : SUBSET Elems, removed : SUBSET Elems]
PlainSets == [kind : {"set"}, added : SUBSET Elems, removed : {{}}]
NoneResult == [kind |-> "None", added |-> {}, removed |-> {}]

\* no query has been made on the set input
NoQuery == [name |-> "none", item |-> 0]

\* a set output after construction, in the first tick
TssInit ==
    /\ EngineParked
    /\ MoreParked
    /\ api_call = "none"
    /\ RestartParked
    /\ BuilderParked
    /\ WiringParked
    /\ TsbParked
    /\ SwitchParked
    /\ RefParked
    /\ tss_pc = "tick"
    /\ _value = {}
    /\ _added = {}
    /\ _removed = {}
    /\ tss_delta_is_none = TRUE
    /\ tss_valid = FALSE
    /\ tss_reset_pending = FALSE
    /\ tss_result = NoneResult
    /\ tss_before = {}
    /\ tss_error = "none"
    /\ tss_tick_start = {}
    /\ tss_query = NoQuery

\* the elements of the delta that are new to the set
AddedOf_Unfiltered(added_elements, value) == added_elements

AddedOf(added_elements, value) == {e \in added_elements : e \notin value}

\* the elements of the delta that the set holds
RemovedOf(removed_elements, value) == {e \in removed_elements : e \in value}

\* _value.update(added); _value.difference_update(removed)
UpdateValue_NoRemoval(value, added, removed) == value \cup added

UpdateValue(value, added, removed) == (value \cup added) \ removed

\* `if self._removed.intersection(self._added)`
SameElement(added, removed) == removed \cap added # {}

\* mark_modified without the notification that resets the delta
MarkModified_NoReset ==
    /\ tss_valid' = TRUE
    /\ UNCHANGED tss_reset_pending

\* mark_modified: the output is valid and _reset runs after the evaluation
MarkModified ==
    /\ tss_valid' = TRUE
    /\ tss_reset_pending' = TRUE

\* apply_result(result)
ApplyResult(result) ==
    /\ tss_pc = "tick"
    /\ tss_result' = result
    /\ tss_before' = _value
    /\ IF result.kind = "None"
       THEN UNCHANGED <<_value, _added, _removed, tss_delta_is_none, tss_valid,
                        tss_reset_pending>>
       ELSE /\ IF result.kind = "SetDelta"
               THEN /\ _added' = AddedOf(result.added, _value)
                    /\ _removed' = RemovedOf(result.removed, _value)
                    /\ _value' = IF SameElement(_added', _removed')
                                 THEN _value
                                 ELSE UpdateValue(_value, _added', _removed')
               ELSE /\ _added' = result.added
                    /\ _removed' = {}
                    /\ _value' = _value \cup _added'
            /\ tss_delta_is_none' = FALSE
            /\ IF result.kind = "SetDelta" /\ SameElement(_added', _removed')
               THEN UNCHANGED <<tss_valid, tss_reset_pending>>
               ELSE IF _added' # {} \/ _removed' # {} \/ ~tss_valid
               THEN MarkModified
               ELSE UNCHANGED <<tss_valid, tss_reset_pending>>
    /\ tss_error' = IF result.kind = "SetDelta" /\ SameElement(_added', _removed')
                    THEN "ValueError"
                    ELSE "none"
    /\ UNCHANGED tss_pc

\* copy_from_output(output) / copy_from_input(input), `value` being the value
\* of the other time series
copy_from(value) ==
    /\ tss_pc = "tick"
    /\ tss_result' = [kind |-> "copy", added |-> value, removed |-> {}]
    /\ tss_before' = _value
    /\ _added' = value \ _value
    /\ _removed' = {}
    /\ tss_delta_is_none' = FALSE
    /\ IF _added' # {}
       THEN /\ _value' = _value \cup _added'
            /\ MarkModified
       ELSE UNCHANGED <<_value, tss_valid, tss_reset_pending>>
    /\ tss_error' = "none"
    /\ UNCHANGED tss_pc

\* the evaluation of the tick ends: the after-evaluation notifications run,
\* _reset among them when the output was marked modified
EndOfTick ==
    /\ tss_pc = "tick"
    /\ IF tss_reset_pending
       THEN /\ _added' = {}
            /\ _removed' = {}
            /\ tss_delta_is_none' = TRUE
       ELSE UNCHANGED <<_added, _removed, tss_delta_is_none>>
    /\ tss_reset_pending' = FALSE
    /\ tss_result' = NoneResult
    /\ tss_before' = _value
    /\ tss_error' = "none"
    /\ UNCHANGED <<tss_pc, _value, tss_valid>>

\* delta_value: frozenset(None) raises TypeError
TypeError == [error |-> "TypeError"]

delta_value ==
    IF tss_delta_is_none
    THEN TypeError
    ELSE [added_elements |-> _added, removed_elements |-> _removed]

TssStep == UNCHANGED <<engine_vars, api_call, restart_vars, more_vars, builder_vars, wiring_vars,
                       tsb_vars, switch_vars, ref_vars, tss_tick_start, tss_query>>

\* the result of a query: what it returned, or the error it raised
Returned_Bool(b) == [kind |-> "bool", bool |-> b, set |-> {}]
Returned_Set(elems) == [kind |-> "set", bool |-> FALSE, set |-> elems]
Returned_None == [kind |-> "None", bool |-> FALSE, set |-> {}]
Raised(name) == [kind |-> name, bool |-> FALSE, set |-> {}]

\* the queries of PythonTimeSeriesSetOutput; `item in None` raises TypeError
OutputQuery(name, item) ==
    IF name = "contains" THEN Returned_Bool(item \in _value)
    ELSE IF name = "values" THEN Returned_Set(_value)
    ELSE IF name = "added"
      THEN IF tss_delta_is_none THEN Returned_None ELSE Returned_Set(_added)
    ELSE IF name = "was_added"
      THEN IF tss_delta_is_none THEN Raised("TypeError")
           ELSE Returned_Bool(item \in _added)
    ELSE IF name = "removed"
      THEN IF tss_delta_is_none THEN Returned_None ELSE Returned_Set(_removed)
    ELSE IF tss_delta_is_none THEN Raised("TypeError")
    ELSE Returned_Bool(item \in _removed)

\* was_removed of the input delegating to the output
InputWasRemoved_Delegated(item) == OutputQuery("was_removed", item)

\* PythonTimeSeriesSetInput.was_removed calls itself: the call never returns,
\* the interpreter ends it with RecursionError
InputWasRemoved(item) == Raised("RecursionError")

\* the queries of PythonTimeSeriesSetInput, bound to the set output
InputQuery(name, item) ==
    IF name = "was_removed" THEN InputWasRemoved(item) ELSE OutputQuery(name, item)

QueryNames == {"contains", "values", "added", "was_added", "removed", "was_removed"}

\* a node queries its set input
Query(name, item) ==
    /\ tss_pc = "tick"
    /\ tss_query' = [name |-> name, item |-> item]
    /\ UNCHANGED <<tss_pc, _value, _added, _removed, tss_delta_is_none, tss_valid,
                   tss_reset_pending, tss_result, tss_before, tss_error>>

TssNext ==
    \/ (\E result \in SetDeltas : ApplyResult(result)) /\ TssStep
    \/ (\E result \in PlainSets : ApplyResult(result)) /\ TssStep
    \/ ApplyResult(NoneResult) /\ TssStep
    \/ EndOfTick /\ TssStep

TssSpec == TssInit /\ [][TssNext]_vars

\* the state of the other sections stays as it is
TssOthersUnchanged ==
    UNCHANGED <<engine_vars, api_call, restart_vars, more_vars, builder_vars,
                wiring_vars, tsb_vars, switch_vars, ref_vars>>

\* set deltas that add or remove at most one element
SingleDeltas ==
    {d \in SetDeltas : Cardinality(d.added) + Cardinality(d.removed) <= 1}

\* a node that queries its set input, bound to a set output that set deltas
\* are applied to
TssQueryNext ==
    \/ /\ \E result \in SingleDeltas : ApplyResult(result)
       /\ tss_query' = NoQuery
       /\ UNCHANGED tss_tick_start
       /\ TssOthersUnchanged
    \/ /\ \E name \in QueryNames, item \in Elems : Query(name, item)
       /\ UNCHANGED tss_tick_start
       /\ TssOthersUnchanged
    \/ /\ EndOfTick
       /\ tss_query' = NoQuery
       /\ UNCHANGED tss_tick_start
       /\ TssOthersUnchanged

TssQuerySpec == TssInit /\ [][TssQueryNext]_vars

\* set deltas whose added and removed elements are disjoint
DisjointDeltas == {d \in SetDeltas : d.added \cap d.removed = {}}

\* several results and copies in one tick, the value at the start of the
\* tick being kept
TssTickNext ==
    \/ /\ \E result \in DisjointDeltas : ApplyResult(result)
       /\ UNCHANGED <<tss_tick_start, tss_query>>
       /\ TssOthersUnchanged
    \/ /\ \E result \in PlainSets : ApplyResult(result)
       /\ UNCHANGED <<tss_tick_start, tss_query>>
       /\ TssOthersUnchanged
    \/ /\ \E value \in SUBSET Elems : copy_from(value)
       /\ UNCHANGED <<tss_tick_start, tss_query>>
       /\ TssOthersUnchanged
    \/ /\ EndOfTick
       /\ tss_tick_start' = _value
       /\ UNCHANGED tss_query
       /\ TssOthersUnchanged

TssTickSpec == TssInit /\ [][TssTickNext]_vars

\* --------------------------------------- properties: the set time series
\* C21: applying a SetDelta with disjoint added elements A and removed
\* elements R to a set output whose value is V leaves the value (V \cup A) \ R;
\* with V = {1, 2}, A = {3}, R = {1} the value is {2, 3}.
C21_SetDeltaApplied ==
    (tss_pc = "tick" /\ tss_result.kind = "SetDelta"
        /\ tss_result.added \cap tss_result.removed = {})
        => _value = (tss_before \cup tss_result.added) \ tss_result.removed

C21_Witness ==
    /\ tss_pc = "tick"
    /\ tss_before = {1, 2}
    /\ tss_result = [kind |-> "SetDelta", added |-> {3}, removed |-> {1}]
    /\ _value = {2, 3}

\* C22 as stated: delta_value in the tick of apply_result(d) has the added
\* and the removed elements of d.
C22_DeltaRoundTrip ==
    (tss_pc = "tick" /\ tss_result.kind = "SetDelta")
        => delta_value = [added_elements |-> tss_result.added,
                          removed_elements |-> tss_result.removed]

\* C22 amended: delta_value in the tick of apply_result(d) has the added
\* elements of d that the set did not hold and the removed elements of d that
\* it held, which are those of d when d adds only new elements and removes only
\* elements of the set.
C22_DeltaIsEffectiveChange ==
    (tss_pc = "tick" /\ tss_result.kind = "SetDelta")
        => /\ delta_value = [added_elements |-> tss_result.added \ tss_before,
                             removed_elements |-> tss_result.removed \cap tss_before]
           /\ (tss_result.added \cap tss_before = {}
                  /\ tss_result.removed \subseteq tss_before)
                  => delta_value = [added_elements |-> tss_result.added,
                                    removed_elements |-> tss_result.removed]

C22_Witness ==
    /\ tss_pc = "tick"
    /\ tss_result.kind = "SetDelta"
    /\ tss_result.added \cap tss_before # {}
    /\ tss_result.added \ tss_before # {}
    /\ tss_result.removed \cap tss_before # {}
    /\ delta_value = [added_elements |-> tss_result.added \ tss_before,
                      removed_elements |-> tss_result.removed \cap tss_before]

\* ------------------- PythonTimeSeriesBundleOutput / PythonTimeSeriesBundleInput
\* the fields of the schema and the ticks of a run
NumFields == 2
MaxTick == 3
Fields == 1 .. NumFields
\* a child input bound to no output
Unbound == 0

\* a bundle output that never ticked and a bundle input bound to nothing, in
\* the first tick
TsbInit ==
    /\ EngineParked
    /\ MoreParked
    /\ api_call = "none"
    /\ RestartParked
    /\ BuilderParked
    /\ WiringParked
    /\ TssParked
    /\ SwitchParked
    /\ RefParked
    /\ tsb_pc = "tick"
    /\ tsb_now = MIN_DT + 1
    /\ field_lmt = [k \in Fields |-> MIN_DT]
    /\ bundle_lmt = MIN_DT
    /\ has_output = FALSE
    /\ child_output = [k \in Fields |-> Unbound]
    /\ tsb_active = FALSE
    /\ child_active = [k \in Fields |-> FALSE]
    /\ subscribed = FALSE
    /\ tsb_ticked = {}
    /\ tsb_call = "none"

\* an output is modified when its last-modified time is the engine time, and
\* valid once it has been modified
OutputModified(lmt) == lmt = tsb_now
OutputValid(lmt) == lmt > MIN_DT

\* PythonTimeSeriesBundleOutput.value / delta_value, by their keys
OutputValueKeys == {k \in Fields : OutputValid(field_lmt[k])}

OutputDeltaKeys_Valid == {k \in Fields : OutputValid(field_lmt[k])}

OutputDeltaKeys == {k \in Fields : OutputModified(field_lmt[k])}

\* a child output marked modified marks the bundle output modified
ParentMarkModified_None(keys) == bundle_lmt

ParentMarkModified(keys) == IF keys = {} THEN bundle_lmt ELSE tsb_now

\* PythonTimeSeriesBundleOutput.apply_result(value), value holding keys
OutputApplyResult(keys) ==
    /\ tsb_pc = "tick"
    /\ field_lmt' = [k \in Fields |-> IF k \in keys THEN tsb_now ELSE field_lmt[k]]
    /\ bundle_lmt' = ParentMarkModified(keys)
    /\ tsb_ticked' = tsb_ticked \cup keys
    /\ UNCHANGED <<tsb_pc, tsb_now, has_output, child_output, tsb_active, child_active,
                   subscribed, tsb_call>>

\* the engine moves to the next tick
Tick ==
    /\ tsb_pc = "tick"
    /\ tsb_now < MaxTick
    /\ tsb_now' = tsb_now + 1
    /\ tsb_ticked' = {}
    /\ UNCHANGED <<tsb_pc, field_lmt, bundle_lmt, has_output, child_output, tsb_active,
                   child_active, subscribed, tsb_call>>

\* the child inputs: a bound input reports what its output reports
ChildBound(k) == child_output[k] # Unbound
ChildModified(k) == ChildBound(k) /\ OutputModified(field_lmt[child_output[k]])
ChildValid(k) == ChildBound(k) /\ OutputValid(field_lmt[child_output[k]])
ChildLastModifiedTime(k) == IF ChildBound(k) THEN field_lmt[child_output[k]] ELSE MIN_DT

has_peer == has_output

\* for k, ts in self.items(): ts.bind_output(output[k])
BindChildren_None == child_output

BindChildren == [k \in Fields |-> k]

\* PythonTimeSeriesBundleInput.bind_output(output)
BindOutput ==
    /\ tsb_pc = "tick"
    /\ ~has_output
    /\ has_output' = TRUE
    /\ subscribed' = tsb_active
    /\ child_output' = BindChildren
    /\ tsb_call' = "bind_output"
    /\ UNCHANGED <<tsb_pc, tsb_now, field_lmt, bundle_lmt, tsb_active, child_active,
                   tsb_ticked>>

\* an edge of the graph binds one child input of an un-peered bundle input
BindChild(k, o) ==
    /\ tsb_pc = "tick"
    /\ ~has_output
    /\ child_output' = [child_output EXCEPT ![k] = o]
    /\ tsb_call' = "bind_child"
    /\ UNCHANGED <<tsb_pc, tsb_now, field_lmt, bundle_lmt, has_output, tsb_active,
                   child_active, subscribed, tsb_ticked>>

\* for ts in self.values(): ts.make_active() / ts.make_passive()
EachChild_First(active) == [k \in Fields |-> IF k = 1 THEN active ELSE child_active[k]]

EachChild(active) == [k \in Fields |-> active]

\* PythonTimeSeriesBundleInput.make_active
make_active ==
    /\ tsb_pc = "tick"
    /\ IF has_peer
       THEN /\ tsb_active' = TRUE
            /\ subscribed' = TRUE
            /\ UNCHANGED child_active
       ELSE /\ child_active' = EachChild(TRUE)
            /\ UNCHANGED <<tsb_active, subscribed>>
    /\ tsb_call' = "make_active"
    /\ UNCHANGED <<tsb_pc, tsb_now, field_lmt, bundle_lmt, has_output, child_output,
                   tsb_ticked>>

\* PythonTimeSeriesBundleInput.make_passive
make_passive ==
    /\ tsb_pc = "tick"
    /\ IF has_peer
       THEN /\ tsb_active' = FALSE
            /\ subscribed' = FALSE
            /\ UNCHANGED child_active
       ELSE /\ child_active' = EachChild(FALSE)
            /\ UNCHANGED <<tsb_active, subscribed>>
    /\ tsb_call' = "make_passive"
    /\ UNCHANGED <<tsb_pc, tsb_now, field_lmt, bundle_lmt, has_output, child_output,
                   tsb_ticked>>

\* PythonTimeSeriesBundleInput.active
InputActive == IF has_peer THEN tsb_active ELSE \E k \in Fields : child_active[k]

\* PythonTimeSeriesBundleInput.modified
InputModified_Children == \E k \in Fields : ChildModified(k)

InputModified ==
    IF has_peer THEN OutputModified(bundle_lmt) ELSE \E k \in Fields : ChildModified(k)

\* PythonTimeSeriesBundleInput.valid
InputValid_All ==
    IF has_peer THEN OutputValid(bundle_lmt) ELSE \A k \in Fields : ChildValid(k)

InputValid ==
    IF has_peer THEN OutputValid(bundle_lmt) ELSE \E k \in Fields : ChildValid(k)

\* PythonTimeSeriesBundleInput.last_modified_time
InputLastModifiedTime ==
    IF has_peer
    THEN bundle_lmt
    ELSE CHOOSE t \in {ChildLastModifiedTime(k) : k \in Fields} :
             \A k \in Fields : ChildLastModifiedTime(k) <= t

\* PythonTimeSeriesBundleInput.value / delta_value, by their keys
InputValueKeys ==
    IF has_peer THEN OutputValueKeys ELSE {k \in Fields : ChildValid(k)}

InputDeltaKeys ==
    IF has_peer THEN OutputDeltaKeys ELSE {k \in Fields : ChildModified(k)}

TsbStep == UNCHANGED <<engine_vars, api_call, restart_vars, more_vars, builder_vars, wiring_vars,
                       tss_vars, switch_vars, ref_vars>>

TsbNext ==
    \/ (\E keys \in SUBSET Fields : OutputApplyResult(keys)) /\ TsbStep
    \/ Tick /\ TsbStep
    \/ BindOutput /\ TsbStep
    \/ (\E k \in Fields, o \in Fields : BindChild(k, o)) /\ TsbStep
    \/ make_active /\ TsbStep
    \/ make_passive /\ TsbStep

TsbSpec == TsbInit /\ [][TsbNext]_vars

\* ------------------------------------ properties: the bundle time series
\* C23: an un-peered bundle input is valid iff one of its child inputs is
\* bound to a valid output, and a peered bundle input is valid iff the bundle
\* output it is bound to is valid.
C23_BundleInputValid ==
    tsb_pc = "tick" =>
        (InputValid <=>
            IF has_output
            THEN bundle_lmt > MIN_DT
            ELSE \E k \in Fields :
                     child_output[k] # Unbound /\ field_lmt[child_output[k]] > MIN_DT)

C23_Witness ==
    /\ tsb_pc = "tick"
    /\ ~has_output
    /\ InputValid
    /\ \E k \in Fields : ~ChildValid(k)

\* C24: after bind_output(o) the bundle input has a peer and child input k is
\* bound to o[k]; from then on the input is modified in a tick iff o's
\* last-modified time is the time of the tick, its last_modified_time is o's,
\* and it is modified in every tick in which a field of o ticked.
C24_PeeredFollowsOutput ==
    /\ tsb_call = "bind_output" => has_peer
    /\ (tsb_pc = "tick" /\ has_peer) =>
           /\ \A k \in Fields : child_output[k] = k
           /\ InputModified <=> (bundle_lmt = tsb_now)
           /\ InputLastModifiedTime = bundle_lmt
           /\ tsb_ticked # {} => InputModified

C24_Witness ==
    /\ tsb_pc = "tick"
    /\ has_peer
    /\ tsb_now > MIN_DT + 1
    /\ Cardinality(tsb_ticked) = 1
    /\ field_lmt[1] # field_lmt[2]
    /\ InputModified

\* C25: in every tick the delta_value of the bundle output and of a peered
\* bundle input has the keys of the fields applied in the tick, that of an
\* un-peered bundle input the keys of the children bound to such a field, and
\* value has the keys of the valid fields.
C25_DeltaHasTickedKeys ==
    tsb_pc = "tick" =>
        /\ OutputDeltaKeys = tsb_ticked
        /\ OutputValueKeys = {k \in Fields : field_lmt[k] > MIN_DT}
        /\ has_peer =>
               /\ InputDeltaKeys = tsb_ticked
               /\ InputValueKeys = {k \in Fields : field_lmt[k] > MIN_DT}
        /\ ~has_peer =>
               /\ InputDeltaKeys = {k \in Fields : child_output[k] \in tsb_ticked}
               /\ InputValueKeys =
                      {k \in Fields : /\ child_output[k] # Unbound
                                      /\ field_lmt[child_output[k]] > MIN_DT}

C25_Witness ==
    /\ tsb_pc = "tick"
    /\ tsb_now > MIN_DT + 1
    /\ tsb_ticked = {2}
    /\ field_lmt[1] = MIN_DT + 1
    /\ ~has_peer
    /\ child_output = [k \in Fields |-> k]
    /\ OutputDeltaKeys = {2}
    /\ InputDeltaKeys = {2}
    /\ InputValueKeys = {1, 2}

\* C26: make_active on an un-peered bundle input leaves every child input
\* active, make_passive leaves every child passive and active false; on a
\* peered bundle input they set the input's own flag and its subscription to
\* the peer output, leave the children alone, and active is the own flag.
C26_ActivationDelegated ==
    [][/\ make_active =>
              IF has_peer
              THEN /\ tsb_active' /\ subscribed'
                   /\ child_active' = child_active
                   /\ InputActive'
              ELSE \A k \in Fields : child_active'[k]
       /\ make_passive =>
              IF has_peer
              THEN /\ ~tsb_active' /\ ~subscribed'
                   /\ child_active' = child_active
                   /\ ~InputActive'
              ELSE /\ \A k \in Fields : ~child_active'[k]
                   /\ ~InputActive']_vars

C26_Witness ==
    /\ tsb_pc = "tick"
    /\ tsb_call = "make_passive"
    /\ has_peer
    /\ \A k \in Fields : child_active[k]
    /\ ~subscribed
    /\ ~InputActive

\* ------------------------------------------------------- the switch node
\* the keys of the nested graphs and the inner graphs instantiated in a run
NumSwitchKeys == 2
MaxGraphs == 3
SwitchKeys == 1 .. NumSwitchKeys
\* no inner graph is active
NoKey == 0

\* SwitchWiringNodeClass(signature, nested_graphs, resolved_signature_inner,
\* reload_on_ticked)
SwitchInit ==
    /\ EngineParked
    /\ MoreParked
    /\ api_call = "none"
    /\ RestartParked
    /\ BuilderParked
    /\ WiringParked
    /\ TssParked
    /\ TsbParked
    /\ RefParked
    /\ switch_pc = "wired"
    /\ _reload_on_ticked \in BOOLEAN
    /\ builder_reload = FALSE
    /\ key_value = NoKey
    /\ prior_key = NoKey
    /\ active_key = NoKey
    /\ active_graphs = {}
    /\ next_graph = 0
    /\ switch_log = <<>>

\* the last argument of PythonSwitchNodeBuilder
PassedReloadOnTicked_Negated == ~_reload_on_ticked

PassedReloadOnTicked == _reload_on_ticked

\* create_node_builder_instance: the node is built and waits for its key
create_node_builder_instance ==
    /\ switch_pc = "wired"
    /\ builder_reload' = PassedReloadOnTicked
    /\ switch_pc' = "idle"
    /\ UNCHANGED <<_reload_on_ticked, key_value, prior_key, active_key, active_graphs,
                   next_graph, switch_log>>

\* the key ticks: the inner graph is kept when the key is the prior key and
\* reload_on_ticked is false
KeyTick(key) ==
    /\ switch_pc = "idle"
    /\ next_graph < MaxGraphs
    /\ key_value' = key
    /\ prior_key' = active_key
    /\ switch_log' = <<>>
    /\ switch_pc' = IF active_key = NoKey THEN "make"
                    ELSE IF key # active_key \/ builder_reload THEN "stop"
                    ELSE "eval"
    /\ UNCHANGED <<_reload_on_ticked, builder_reload, active_key, active_graphs,
                   next_graph>>

\* the prior inner graph is stopped
StopPrior ==
    /\ switch_pc = "stop"
    /\ active_graphs' = {}
    /\ switch_log' = Append(switch_log, "stop")
    /\ switch_pc' = "release"
    /\ UNCHANGED <<_reload_on_ticked, builder_reload, key_value, prior_key, active_key,
                   next_graph>>

\* the prior inner graph is released
ReleasePrior ==
    /\ switch_pc = "release"
    /\ active_key' = NoKey
    /\ switch_log' = Append(switch_log, "release")
    /\ switch_pc' = "make"
    /\ UNCHANGED <<_reload_on_ticked, builder_reload, key_value, prior_key, active_graphs,
                   next_graph>>

\* the inner graph of the key is instantiated
MakeInner ==
    /\ switch_pc = "make"
    /\ next_graph' = next_graph + 1
    /\ active_key' = key_value
    /\ switch_log' = Append(switch_log, "make_instance")
    /\ switch_pc' = "start"
    /\ UNCHANGED <<_reload_on_ticked, builder_reload, key_value, prior_key, active_graphs>>

\* the inner graph is started
StartInner ==
    /\ switch_pc = "start"
    /\ active_graphs' = active_graphs \cup {next_graph}
    /\ switch_log' = Append(switch_log, "start")
    /\ switch_pc' = "eval"
    /\ UNCHANGED <<_reload_on_ticked, builder_reload, key_value, prior_key, active_key,
                   next_graph>>

\* eval is forwarded to the inner graph
EvalInner ==
    /\ switch_pc = "eval"
    /\ switch_pc' = "idle"
    /\ UNCHANGED <<_reload_on_ticked, builder_reload, key_value, prior_key, active_key,
                   active_graphs, next_graph, switch_log>>

\* stop is forwarded to the inner graph
StopSwitch ==
    /\ switch_pc = "idle"
    /\ active_graphs' = {}
    /\ switch_pc' = "stopped"
    /\ UNCHANGED <<_reload_on_ticked, builder_reload, key_value, prior_key, active_key,
                   next_graph, switch_log>>

SwitchStep == UNCHANGED <<engine_vars, api_call, restart_vars, more_vars, builder_vars, wiring_vars,
                          tss_vars, tsb_vars, ref_vars>>

SwitchNext ==
    \/ create_node_builder_instance /\ SwitchStep
    \/ (\E key \in SwitchKeys : KeyTick(key)) /\ SwitchStep
    \/ StopPrior /\ SwitchStep
    \/ ReleasePrior /\ SwitchStep
    \/ MakeInner /\ SwitchStep
    \/ StartInner /\ SwitchStep
    \/ EvalInner /\ SwitchStep
    \/ StopSwitch /\ SwitchStep

SwitchSpec == SwitchInit /\ [][SwitchNext]_vars

\* ----------------------------------------- properties: the switch node
\* C27: at most one inner graph of a switch node is active; when the key
\* ticks with another value the prior inner graph is stopped and released
\* before the new one is instantiated and started; when it ticks with the
\* value of the active inner graph, that graph is kept iff the
\* reload_on_ticked the switch was wired with is false.
C27_OneInnerGraph ==
    /\ Cardinality(active_graphs) <= 1
    /\ switch_pc \in {"make", "start"} => active_graphs = {}
    /\ (switch_pc = "eval" /\ prior_key # NoKey /\ key_value # prior_key)
           => switch_log = <<"stop", "release", "make_instance", "start">>
    /\ (switch_pc = "eval" /\ prior_key # NoKey /\ key_value = prior_key)
           => /\ switch_log = <<>> <=> ~_reload_on_ticked
              /\ _reload_on_ticked
                     => switch_log = <<"stop", "release", "make_instance", "start">>
              /\ ~_reload_on_ticked => active_graphs # {}

C27_Witness ==
    /\ switch_pc = "eval"
    /\ prior_key # NoKey
    /\ key_value = prior_key
    /\ ~_reload_on_ticked
    /\ switch_log = <<>>
    /\ Cardinality(active_graphs) = 1
    /\ next_graph = 2

\* ------------------------------------------- valid over a reference
\* the ticks of a run and the values the time series a and b tick with
MaxRefTicks == 6
MaxRefValue == 2
RefValues == 1 .. MaxRefValue
\* None in the inputs of eval_node: the time series does not tick
NoTick == -1
\* the value of a time series that never ticked
NoValue == 0
Targets == {"a", "b"}

\* the inputs and the expected outputs of test_valid_1
TestA == <<NoTick, NoTick, NoTick, NoTick, 1>>
TestB == <<NoTick, NoTick, 1, NoTick, NoTick>>
TestI == <<2, 1, NoTick, 0, NoTick, 2>>
Expected == <<"False", "False", "True", "False", "True", "False">>

\* eval_node: a list shorter than the run has no further ticks
InputAt(list, n) == IF n <= Len(list) THEN list[n] ELSE NoTick

\* the graph g before its first tick
RefInit ==
    /\ EngineParked
    /\ MoreParked
    /\ api_call = "none"
    /\ RestartParked
    /\ BuilderParked
    /\ WiringParked
    /\ TssParked
    /\ TsbParked
    /\ SwitchParked
    /\ ref_pc = "tick"
    /\ ref_now = 0
    /\ ref_value = [t \in Targets |-> NoValue]
    /\ ref_i = NoTick
    /\ ref_target = "unset"
    /\ ref_out = "None"
    /\ ref_cause = {}
    /\ ref_inputs = "test_valid_1"

\* make_ref: [a.value, b.value, TimeSeriesReference.make()][i.value]
make_ref_Swapped(i) == <<"b", "a", "empty">>[i + 1]

make_ref(i) == <<"a", "b", "empty">>[i + 1]

\* valid: the validity of the target the reference resolves to
ValidOf(target, value) ==
    IF target \in Targets /\ value[target] # NoValue THEN "True" ELSE "False"

\* a consumer reading value through the reference
ReadThrough == IF ref_target \in Targets THEN ref_value[ref_target] ELSE NoValue

\* one tick of the graph with the inputs a, b and i
RefTick(a, b, i) ==
    /\ ref_pc = "tick"
    /\ ref_now < MaxRefTicks
    /\ ref_now' = ref_now + 1
    /\ ref_value' = [t \in Targets |->
                        IF t = "a" /\ a # NoTick THEN a
                        ELSE IF t = "b" /\ b # NoTick THEN b
                        ELSE ref_value[t]]
    /\ ref_i' = IF i # NoTick THEN i ELSE ref_i
    /\ ref_target' = IF i # NoTick THEN make_ref(i) ELSE ref_target
    /\ ref_cause' = {c \in {"rebound"} : i # NoTick}
                        \cup {c \in {"became_valid"} :
                                 /\ ref_target' \in Targets
                                 /\ ValidOf(ref_target', ref_value) = "False"
                                 /\ ValidOf(ref_target', ref_value') = "True"}
    /\ ref_out' = IF ref_cause' # {} THEN ValidOf(ref_target', ref_value') ELSE "None"
    /\ ref_inputs' = IF /\ ref_inputs = "test_valid_1"
                        /\ a = InputAt(TestA, ref_now')
                        /\ b = InputAt(TestB, ref_now')
                        /\ i = InputAt(TestI, ref_now')
                     THEN "test_valid_1"
                     ELSE "other"
    /\ UNCHANGED ref_pc

RefStep == UNCHANGED <<engine_vars, api_call, restart_vars, more_vars, builder_vars, wiring_vars,
                       tss_vars, tsb_vars, switch_vars>>

RefNext ==
    \E a \in RefValues \cup {NoTick}, b \in RefValues \cup {NoTick}, i \in {NoTick, 0, 1, 2} :
        RefTick(a, b, i) /\ RefStep

RefSpec == RefInit /\ [][RefNext]_vars

\* ----------------------------------------------- properties: references
\* C28: in each tick in which the reference is rebound or its target becomes
\* valid, the output of valid is the validity of the target now referenced
\* (False for an empty reference and for a target that never ticked), the
\* outputs for the inputs of test_valid_1 are those the test expects, and a
\* read through the reference in the tick of a rebind gives the value of the
\* target make_ref selected.
C28_ValidFollowsRebind ==
    ref_pc = "tick" =>
        /\ ref_cause # {} =>
               ref_out = IF /\ ref_i \in {0, 1}
                            /\ ref_value[<<"a", "b">>[ref_i + 1]] # NoValue
                         THEN "True"
                         ELSE "False"
        /\ (ref_inputs = "test_valid_1" /\ ref_now \in 1 .. Len(Expected))
               => ref_out = Expected[ref_now]
        /\ ("rebound" \in ref_cause /\ ref_i \in {0, 1})
               => ReadThrough = ref_value[<<"a", "b">>[ref_i + 1]]

C28_Witness ==
    /\ ref_pc = "tick"
    /\ ref_inputs = "test_valid_1"
    /\ ref_now = Len(Expected)
    /\ ref_cause = {"rebound"}
    /\ ref_target = "empty"
    /\ ref_value = [t \in Targets |-> 1]
    /\ ref_out = "False"

\* ------------------------------------------- properties: stop(), continued
\* C32: in stop(), each node's stop is preceded by on_before_stop_node(node)
\* and, when it returns, followed by on_after_stop_node(node); no
\* on_before_start_node / on_after_start_node is emitted after on_before_stop.
C32_StopNotifications ==
    \A k \in DOMAIN life_log :
        /\ life_log[k].ev = "stop" =>
               /\ k > 1
               /\ life_log[k - 1] = Ev("on_before_stop_node", life_log[k].node)
               /\ k < Len(life_log) =>
                      life_log[k + 1] = Ev("on_after_stop_node", life_log[k].node)
        /\ life_log[k].ev \in {"on_before_start_node", "on_after_start_node"} =>
               \A j \in 1 .. k : life_log[j].ev # "on_before_stop"

\* C33: stop() stops the nodes in the reverse of the order in which start()
\* started them: of two stops, the later is of the node with the lower index.
C33_StopReversesStart ==
    \A j, k \in DOMAIN life_log :
        (j < k /\ life_log[j].ev = "stop" /\ life_log[k].ev = "stop")
            => life_log[j].node > life_log[k].node

\* ------------------------------------- the post-evaluation queue of the engine
\* the evaluate_graph() calls of the runs observed
MaxNotifyTicks == 2

\* an engine in BACK_TEST mode with an empty queue, nothing else in use
NotifyInit ==
    /\ EngineParked
    /\ BuilderParked
    /\ WiringParked
    /\ TypesParked
    /\ MoreParked

\* a step of the engine that leaves the queue alone
NotifyStep ==
    /\ api_call' = "none"
    /\ UNCHANGED <<restart_vars, builder_vars, wiring_vars, types_vars, schema_vars,
                   unroll_vars>>

QueueUnchanged == NotifyStep /\ UNCHANGED notify_vars

\* evaluate_graph() begins one more tick
NotifyEvaluateGraph ==
    /\ tick_no < MaxNotifyTicks
    /\ EvaluateGraph
    /\ tick_no' = tick_no + 1
    /\ notify_log' = <<>>
    /\ UNCHANGED <<_after_evaluation_notification, added_callbacks, invoked,
                   aborted_ticks>>
    /\ NotifyStep

\* add_after_evaluation_notification(callback), called by the eval of a node
add_after_evaluation_notification(callback) ==
    Append(_after_evaluation_notification, callback)

\* one pass of the loop of evaluate_graph(); the eval of a scheduled node may
\* add a callback to the queue before it returns or raises
NotifyEvalNode(raises, delta, add) ==
    /\ EvalNode(raises, delta, FALSE, FALSE)
    /\ LET evaluated == IsScheduledNow(_scheduler[idx], current_engine_time)
           callback == <<tick_no, idx>>
       IN /\ add => evaluated
          /\ _after_evaluation_notification' =
                 IF add THEN add_after_evaluation_notification(callback)
                 ELSE _after_evaluation_notification
          /\ added_callbacks' = IF add THEN added_callbacks \cup {callback}
                                ELSE added_callbacks
          /\ notify_log' = IF evaluated THEN Append(notify_log, Ev("eval", idx))
                           ELSE notify_log
    /\ aborted_ticks' = IF raises THEN aborted_ticks \cup {tick_no} ELSE aborted_ticks
    /\ UNCHANGED <<tick_no, invoked>>
    /\ NotifyStep

\* notify_after_evaluation: the receivers are called, the queue is cleared,
\* the observers are told
AfterEvaluationEvents ==
    [k \in 1 .. Len(_after_evaluation_notification) |->
        Ev("callback", _after_evaluation_notification[k][2])]
    \o <<GraphEv("on_after_evaluation")>>

\* a queue that is not cleared
ClearedQueue_Kept == _after_evaluation_notification

\* `self._after_evaluation_notification.clear()`
ClearedQueue == <<>>

notify_after_evaluation ==
    /\ EvaluateGraphEnd
    /\ invoked' = invoked \o [k \in 1 .. Len(_after_evaluation_notification) |->
                                 <<_after_evaluation_notification[k], tick_no>>]
    /\ _after_evaluation_notification' = ClearedQueue
    /\ notify_log' = notify_log \o AfterEvaluationEvents
    /\ UNCHANGED <<tick_no, added_callbacks, aborted_ticks>>
    /\ NotifyStep

NotifyNext ==
    \/ (\E s \in MIN_DT .. MIN_DT + 1 : Run(s, s)) /\ QueueUnchanged
    \/ Start /\ QueueUnchanged
    \/ StartNode(FALSE) /\ QueueUnchanged
    \/ StartEnd /\ QueueUnchanged
    \/ LoopTest /\ QueueUnchanged
    \/ NotifyEvaluateGraph
    \/ \E raises \in BOOLEAN, add \in BOOLEAN : NotifyEvalNode(raises, 0, add)
    \/ notify_after_evaluation
    \/ advance_engine_time(0) /\ QueueUnchanged
    \/ Stop /\ QueueUnchanged
    \/ StopNode(FALSE) /\ QueueUnchanged
    \/ StopEnd /\ QueueUnchanged

NotifySpec == NotifyInit /\ [][NotifyNext]_vars

\* the evaluate_graph() call of tick t is over
TickOver(t) == t < tick_no \/ pc # "eval_node"

\* -------------------------------- properties: the post-evaluation queue
\* C31 as stated: a callback added to the post-evaluation queue in tick t is
\* invoked exactly once, in tick t, after the evals of the tick and before
\* on_after_evaluation; the queue is empty when evaluate_graph has returned.
C31_CallbackOnceInItsTick ==
    /\ \A k \in DOMAIN invoked : invoked[k][2] = invoked[k][1][1]
    /\ \A c \in added_callbacks :
           TickOver(c[1]) => Cardinality({k \in DOMAIN invoked : invoked[k][1] = c}) = 1
    /\ pc = "advance" => _after_evaluation_notification = <<>>
    /\ \A j, k \in DOMAIN notify_log :
           (j < k) => /\ notify_log[j].ev # "on_after_evaluation"
                      /\ notify_log[j].ev = "callback" => notify_log[k].ev # "eval"

\* --------------------------------------- properties: toposort, continued
\* the nodes toposort was called with
Sinks == {sink_nodes[k] : k \in DOMAIN sink_nodes}

Invocations(c) == {k \in DOMAIN invoked : invoked[k][1] = c}

\* the ticks from t on in which evaluate_graph() has returned
ReturnedTicks(t) == {u \in t .. tick_no : u \notin aborted_ticks /\ TickOver(u)}

\* C31 amended: a callback added in tick t is invoked at most once, after the
\* evals of a tick and before its on_after_evaluation; it is invoked in tick t
\* when every eval of tick t returns, and the queue is empty when
\* evaluate_graph has returned.  When an eval of tick t raises, the callback
\* stays queued: it is invoked in the first later tick of the engine in which
\* evaluate_graph returns, and not before.
C31_CallbackOnceWhenTickReturns ==
    /\ \A c \in added_callbacks :
           /\ Cardinality(Invocations(c)) <= 1
           /\ IF ReturnedTicks(c[1]) = {}
                THEN /\ Invocations(c) = {}
                     /\ \E k \in DOMAIN _after_evaluation_notification :
                            _after_evaluation_notification[k] = c
                ELSE \E k \in Invocations(c) :
                         /\ invoked[k][2] \in ReturnedTicks(c[1])
                         /\ \A u \in ReturnedTicks(c[1]) : invoked[k][2] <= u
    /\ pc = "advance" => _after_evaluation_notification = <<>>
    /\ \A j, k \in DOMAIN notify_log :
           (j < k) => /\ notify_log[j].ev # "on_after_evaluation"
                      /\ notify_log[j].ev = "callback" => notify_log[k].ev # "eval"

\* C31 witness: one callback invoked in the tick it was added in, after two
\* evals, and another, added in a tick that an eval left by raising, invoked
\* in a later tick
C31_Witness ==
    /\ pc = "advance"
    /\ \E k \in DOMAIN invoked : invoked[k][2] = invoked[k][1][1]
    /\ \E k \in DOMAIN invoked : invoked[k][2] > invoked[k][1][1]
    /\ \E j, k \in DOMAIN notify_log :
          /\ j < k
          /\ notify_log[j].ev = "eval"
          /\ notify_log[k].ev = "callback"

\* ---------------------------------------------------------------------------
\* The set output, continued: the reset of the delta, the set input, and
\* several operations in one tick
\* ---------------------------------------------------------------------------

C36_InputMirrorsOutput ==
    (tss_pc = "tick" /\ tss_query.name # "none")
        => /\ InputQuery(tss_query.name, tss_query.item).kind # "RecursionError"
           /\ InputQuery(tss_query.name, tss_query.item)
                = OutputQuery(tss_query.name, tss_query.item)

\* C37: apply_result with a delta whose added and removed elements share an
\* element raises ValueError and leaves the members as they were.
C37_OverlapRejected ==
    (tss_pc = "tick" /\ tss_result.kind = "SetDelta"
        /\ tss_result.added \cap tss_result.removed # {})
        => (tss_error = "ValueError" /\ _value = tss_before)

\* C38: after the results and copies of one tick, the added elements are the
\* members now present that were absent when the tick began, the removed
\* elements those present when the tick began and absent now.
C38_DeltaSound ==
    (tss_pc = "tick" /\ ~tss_delta_is_none)
        => /\ _added = _value \ tss_tick_start
           /\ _removed = tss_tick_start \ _value

\* ---------------------------------------------------------------------------
\* HgTimeSeriesSchemaTypeMetaData.build_resolution_dict: a declared bundle
\* schema resolved against the schema wired to it.  A schema is the sequence
\* of its field names in declaration order (the order of the dict).
\* ---------------------------------------------------------------------------

MaxSchemaKeys == 3

SchemaKeys == 1 .. MaxSchemaKeys

\* the schemas of up to MaxSchemaKeys fields: each field name once
Schemas ==
    UNION {{s \in [1 .. n -> SchemaKeys] : \A p, q \in 1 .. n : p # q => s[p] # s[q]} :
           n \in 0 .. MaxSchemaKeys}

\* build_resolution_dict is called on a declared schema with a wired schema
SchemaInit ==
    /\ schema_pc = "call"
    /\ meta_data_schema \in Schemas
    /\ wired_schema \in Schemas
    /\ schema_i = 0
    /\ schema_resolved = <<>>
    /\ schema_error = "none"
    /\ EngineParked /\ BuilderParked /\ WiringParked /\ TypesParked /\ NotifyParked
    /\ UnrollParked

SchemaStep ==
    UNCHANGED <<engine_vars, api_call, restart_vars, builder_vars, wiring_vars, types_vars,
                notify_vars, unroll_vars>>

\* `any(k not in wired_type.meta_data_schema for k in self.meta_data_schema.keys())`
KeysDoNotMatch(schema, wired) == \E k \in Range(schema) : k \notin Range(wired)

\* lines 47-50: the two tests that raise ParseError
build_resolution_dict ==
    /\ schema_pc = "call"
    /\ IF Len(meta_data_schema) # Len(wired_schema)
       THEN schema_pc' = "raised" /\ schema_error' = "ParseError"
       ELSE IF KeysDoNotMatch(meta_data_schema, wired_schema)
       THEN schema_pc' = "raised" /\ schema_error' = "ParseError"
       ELSE /\ schema_pc' = IF Len(meta_data_schema) = 0 THEN "returned" ELSE "zip"
            /\ UNCHANGED schema_error
    /\ schema_i' = 1
    /\ UNCHANGED <<meta_data_schema, wired_schema, schema_resolved>>

\* lines 51-52: one step of the loop over zip(values, wired values): the
\* declared field at a position is resolved against the wired field at the
\* same position
ResolveField ==
    /\ schema_pc = "zip"
    /\ schema_resolved' =
         Append(schema_resolved, <<meta_data_schema[schema_i], wired_schema[schema_i]>>)
    /\ schema_i' = schema_i + 1
    /\ schema_pc' = IF schema_i = Len(meta_data_schema) THEN "returned" ELSE "zip"
    /\ UNCHANGED <<meta_data_schema, wired_schema, schema_error>>

SchemaNext ==
    \/ build_resolution_dict /\ SchemaStep
    \/ ResolveField /\ SchemaStep

SchemaSpec == SchemaInit /\ [][SchemaNext]_vars

\* C39: build_resolution_dict raises ParseError iff the field names of the
\* declared and the wired schema differ; otherwise each declared field is
\* resolved against the wired field of the same name, whatever the order of
\* the two declarations.
C39_ResolvedByName ==
    /\ schema_pc \in {"raised", "returned", "zip"}
         => (schema_error = "ParseError"
               <=> Range(meta_data_schema) # Range(wired_schema))
    /\ schema_pc = "returned"
         => /\ \A p \in 1 .. Len(schema_resolved) :
                  schema_resolved[p][1] = schema_resolved[p][2]
            /\ {schema_resolved[p][1] : p \in 1 .. Len(schema_resolved)}
                  = Range(meta_data_schema)

\* the part of C39 on the error: ParseError iff the field names differ
C39_ParseErrorIffKeysDiffer ==
    schema_pc \in {"raised", "returned", "zip"}
        => (schema_error = "ParseError"
              <=> Range(meta_data_schema) # Range(wired_schema))

\* ---------------------------------------------------------------------------
\* The unroll node: the elements of the tuples its input ticks are buffered
\* and returned one per evaluation.  The elements are numbered in arrival
\* order, so that each one is told from every other.
\* ---------------------------------------------------------------------------

MaxTuples == 3
MaxTupleLen == 3
MaxGap == 2

\* the smallest step of engine time
MIN_TD == 1

UnrollInit ==
    /\ unroll_pc = "run"
    /\ unroll_time = 0
    /\ ts_left = MaxTuples
    /\ buffer = <<>>
    /\ unroll_scheduled = 0
    /\ unroll_arrived = <<>>
    /\ unroll_out = <<>>
    /\ EngineParked /\ BuilderParked /\ WiringParked /\ TypesParked /\ NotifyParked
    /\ SchemaParked

UnrollStep ==
    UNCHANGED <<engine_vars, api_call, restart_vars, builder_vars, wiring_vars, types_vars,
                notify_vars, schema_vars>>

\* the tuple of n elements that arrives next
NextTuple(n) == [p \in 1 .. n |-> Len(unroll_arrived) + p]

\* _schedule.schedule(delta): the slot of the node holds now + delta
schedule(now, delta) == now + delta

\* `if d:` after the popleft
Rescheduled_Never(d) == FALSE

Rescheduled(d) == d # <<>>

\* the body of unroll at the time `now`, ts.value being `value` when
\* ts.modified.  The evaluation takes the node's entry out of the scheduler.
unroll(now, modified, value) ==
    LET extended == IF modified THEN buffer \o value ELSE buffer
    IN  /\ unroll_time' = now
        /\ IF extended # <<>>
           THEN /\ unroll_out' = Append(unroll_out, Head(extended))
                /\ buffer' = Tail(extended)
                /\ unroll_scheduled' = IF Rescheduled(Tail(extended))
                                       THEN schedule(now, MIN_TD)
                                       ELSE 0
           ELSE /\ UNCHANGED <<unroll_out, buffer>>
                /\ unroll_scheduled' = 0

\* the input ticks a tuple: the node is evaluated with ts.modified.  While
\* the node is scheduled the next engine time is not later than its entry.
InputTick(n, gap) ==
    /\ unroll_pc = "run"
    /\ ts_left > 0
    /\ unroll_scheduled # 0 => unroll_time + gap <= unroll_scheduled
    /\ ts_left' = ts_left - 1
    /\ unroll_arrived' = unroll_arrived \o NextTuple(n)
    /\ unroll(unroll_time + gap, TRUE, NextTuple(n))
    /\ UNCHANGED unroll_pc

\* the engine reaches the time in the node's scheduler slot and the input
\* has not ticked
ScheduledEval ==
    /\ unroll_pc = "run"
    /\ unroll_scheduled # 0
    /\ unroll(unroll_scheduled, FALSE, <<>>)
    /\ UNCHANGED <<unroll_pc, ts_left, unroll_arrived>>

\* the input makes no more ticks
InputEnds ==
    /\ unroll_pc = "run"
    /\ ts_left > 0
    /\ ts_left' = 0
    /\ UNCHANGED <<unroll_pc, unroll_time, buffer, unroll_scheduled, unroll_arrived,
                   unroll_out>>

UnrollNext ==
    \/ (\E n \in 0 .. MaxTupleLen, gap \in MIN_TD .. MaxGap : InputTick(n, gap)) /\ UnrollStep
    \/ ScheduledEval /\ UnrollStep
    \/ InputEnds /\ UnrollStep

UnrollSpec == UnrollInit /\ [][UnrollNext]_vars

\* the engine evaluates a node at the time its scheduler slot holds
UnrollFairSpec == UnrollSpec /\ WF_vars(ScheduledEval /\ UnrollStep)

====
